---------------------------- MODULE Spec2Model ----------------------------
(***************************************************************************)
(* Coherence-functional communication testbed                              *)
(* (src/Alternative_Formulations/em_potential_coherence_simulation_v2_1.py)*)
(*                                                                         *)
(* Three groups of state, one per component:                               *)
(*   - the functional library (gradient_based, energy_like,                *)
(*     phase_wilson_line, hybrid, entropy_coherence) applied to a field;   *)
(*   - the decoder (decode_bits_from_trace);                               *)
(*   - the benchmark harness (ber_leaderboard).                            *)
(*                                                                         *)
(* Number representation.  The program computes in floating point; the     *)
(* model computes the same quantities exactly:                             *)
(*   - a rational is a pair <<num, den>> with den > 0; <<0, 0>> is NaN;    *)
(*   - field samples are integer multiples of a = pi / (2*dt), so that the *)
(*     accumulated phase of phase_wilson_line is a multiple of pi/2 and    *)
(*     exp(1j*phase) is one of 1, i, -1, -i;                               *)
(*   - an output of an exponential functional exp(-e*u) (u > 0 a fixed     *)
(*     unit) is kept as its exponent e: [kind |-> "exp", num |-> e];       *)
(*   - an output of the phase functional is kept as its square num/den:    *)
(*     [kind |-> "sqrt", num |-> num, den |-> den].                        *)
(* Rows and columns keep the source's 0-based indices.                     *)
(***************************************************************************)
EXTENDS Integers, Sequences, FiniteSets, TLC

VARIABLES
    \* functional library
    A_field,        \* the field handed to the functional, [time][space]
    B_field,        \* a second field, for the two-run comparison
    em,             \* EMPotentialCoherence(alpha, beta, tau) and the grid steps
    fn,             \* the functional that ran ("none" before the call)
    C_out,          \* its output for A_field
    C_outB,         \* its output for B_field
    windows,        \* per time index, the integrand rows that were integrated
    \* decoder
    trace, bit_pattern, bit_duration, trim, noise_level,
    dec,            \* the dict decode_bits_from_trace returned
    \* benchmark harness
    scenarios,      \* the scenario list of the run
    lb_Nt,          \* len(t)
    lb_pc,          \* "gen" | "eval" | "sort" | "done" | "failed"
    si,             \* index of the scenario being processed (1-based)
    fi,             \* index of the functional being processed (1-based)
    meta,           \* metadata of the current scenario
    results,        \* entries appended so far
    results_sorted, \* the returned list
    log,            \* the [SKIP] lines printed
    \* field generator
    gen_in,         \* the arguments of the generate_em_field call
    gen_out,        \* what the call returned or raised
    idx_probe,      \* the column the trace is read from
    \* topology-selective simulation (src/Simulations/coupled_system_simulation.py)
    sim_p,          \* Params: Nt and amp
    channels,       \* self.channels: the dict, as its entries in insertion order
    objects,        \* the CoherenceChannel objects created so far, by identity
    nodes,          \* self.nodes
    time,           \* self.time
    EB_signal,      \* self.EB_signal
    sender_idx,     \* self.sender_idx
    sim_pc,         \* "setup" | "step" | "channels" | "measure" | "done" | "failed"
    sim_n,          \* the loop variable n of run
    sim_i,          \* position in the loop over the channels or over the nodes
    rng             \* the global numpy generator: its seed and the draws made

fnVars  == <<A_field, B_field, em, fn, C_out, C_outB, windows>>
decVars == <<trace, bit_pattern, bit_duration, trim, noise_level, dec>>
lbVars  == <<scenarios, lb_Nt, lb_pc, si, fi, meta, results, results_sorted, log>>
genVars == <<gen_in, gen_out, idx_probe>>
simVars == <<sim_p, channels, objects, nodes, time, EB_signal, sender_idx,
             sim_pc, sim_n, sim_i, rng>>
vars    == <<fnVars, decVars, lbVars, genVars, simVars>>

---------------------------------------------------------------------------
(* Bounds of the model *)

FnNt == 3          \* time samples of the fields given to the functionals
FnNx == 2          \* space samples of those fields
MaxTraceLen == 4   \* longest trace given to the decoder
MaxBits == 3       \* longest bit pattern given to the decoder
MaxDur == 2        \* largest bit_duration given to the decoder
MaxTrim == 1       \* largest trim given to the decoder
LbNt == 4          \* time samples of the harness grid
GenNt == 3         \* longest time grid given to the field generator
GenBits == 4       \* longest bit pattern given to the field generator
MaxDist == 3       \* largest distance between the two nodes, in grid units
RtNt == 4          \* longest time grid of the round trip
RtNx == 3          \* space samples of the round trip
RtBits == 3        \* longest bit pattern of the round trip

FieldValues == {0, 1}       \* field samples, in units of a = pi/(2*dt)
TraceValues == {0, 50, 100} \* trace samples given to the decoder, in hundredths

---------------------------------------------------------------------------
(* Arithmetic helpers *)

Max(a, b) == IF a >= b THEN a ELSE b
Min(a, b) == IF a <= b THEN a ELSE b
Abs(a) == IF a < 0 THEN -a ELSE a
Sgn(a) == IF a < 0 THEN -1 ELSE IF a > 0 THEN 1 ELSE 0

RECURSIVE SumOver(_, _)
\* sum of f[i] for i in the finite set S
SumOver(f, S) ==
    IF S = {} THEN 0
    ELSE LET i == CHOOSE j \in S : TRUE IN f[i] + SumOver(f, S \ {i})

NaN == <<0, 0>>
IsFinite(r) == r[2] # 0
RatEq(r, s) == IsFinite(r) /\ IsFinite(s) /\ r[1] * s[2] = s[1] * r[2]
RatLt(r, s) == IsFinite(r) /\ IsFinite(s) /\ r[1] * s[2] < s[1] * r[2]
RatLe(r, s) == IsFinite(r) /\ IsFinite(s) /\ r[1] * s[2] <= s[1] * r[2]
RatAdd(r, s) ==
    IF IsFinite(r) /\ IsFinite(s)
    THEN <<r[1] * s[2] + s[1] * r[2], r[2] * s[2]>> ELSE NaN
RatSub(r, s) ==
    IF IsFinite(r) /\ IsFinite(s)
    THEN <<r[1] * s[2] - s[1] * r[2], r[2] * s[2]>> ELSE NaN
RatHalf(r) == IF IsFinite(r) THEN <<r[1], 2 * r[2]>> ELSE NaN
RatNeg(r) == IF IsFinite(r) THEN <<-r[1], r[2]>> ELSE NaN

RECURSIVE Gcd(_, _)
Gcd(a, b) == IF b = 0 THEN a ELSE Gcd(b, a % b)
\* the canonical pair of a rational, so that equal numbers are equal values
Norm(r) ==
    IF ~IsFinite(r) THEN NaN
    ELSE IF r[1] = 0 THEN <<0, 1>>
    ELSE LET g == Gcd(Abs(r[1]), r[2]) IN <<r[1] \div g, r[2] \div g>>

\* mean of the finite values f[i], i in S (S non-empty): np.mean
MeanOver(f, S) == Norm(<<SumOver(f, S), Cardinality(S)>>)

RECURSIVE RatSumOver(_, _)
RatSumOver(f, S) ==
    IF S = {} THEN <<0, 1>>
    ELSE LET i == CHOOSE j \in S : TRUE IN RatAdd(f[i], RatSumOver(f, S \ {i}))
\* mean of the rationals f[i], i in S (S non-empty)
RatMeanOver(f, S) ==
    LET s == RatSumOver(f, S) IN Norm(<<s[1], s[2] * Cardinality(S)>>)

---------------------------------------------------------------------------
(* Functional library: class EMPotentialCoherence and entropy_coherence *)

\* value of a coherence output, see the header
ExpVal(r) == [kind |-> "exp", num |-> Norm(r)[1], den |-> Norm(r)[2]]
SqrtVal(r) == [kind |-> "sqrt", num |-> Norm(r)[1], den |-> Norm(r)[2]]
One == ExpVal(<<0, 1>>)
SameValue(v, w) == v.kind = w.kind /\ v.num * w.den = w.num * v.den

\* the value lies in the closed interval [0, 1]
InUnit(v) ==
    IF v.kind = "exp" THEN v.den > 0 /\ v.num >= 0
    ELSE v.den > 0 /\ v.num >= 0 /\ v.num <= v.den

NoClip(v) == v
\* np.clip(v, 0.0, 1.0): exp(-q) exceeds 1 exactly when q < 0 and is never
\* negative; a square num/den is clipped to 0 below and to 1 above
Clip01(v) ==
    IF v.kind = "exp"
    THEN (IF v.num < 0 THEN One ELSE v)
    ELSE (IF v.num < 0 THEN SqrtVal(<<0, 1>>)
          ELSE IF v.num > v.den THEN SqrtVal(<<1, 1>>) ELSE v)

NtOf(A) == Cardinality(DOMAIN A)
NxOf(A) == Cardinality(DOMAIN A[0])

\* _memory_samples: max(1, int(tau / dt)), tau >= 0 and dt # 0 in a common
\* unit; int() truncates, and for dt < 0 the quotient is <= 0 and the result 1
memory_samples(tau, dt) == Max(1, tau \div dt)

WindowShort(t, n_mem, Nt) ==
    {i \in 0 .. Nt - 1 : Max(0, t - n_mem + 1) <= i /\ i < t + 1}
\* the rows of the slice [t0 : t + 1] with t0 = max(0, t - n_mem)
Window(t, n_mem, Nt) ==
    LET t0 == Max(0, t - n_mem)
    IN {i \in 0 .. Nt - 1 : t0 <= i /\ i < t + 1}

RECURSIVE BasicSimpson12(_, _, _)
\* 12/dx times scipy's _basic_simpson over the N (odd) samples y[lo .. lo+N-1]
BasicSimpson12(y, lo, N) ==
    IF N < 3 THEN 0
    ELSE 4 * (y[lo] + 4 * y[lo + 1] + y[lo + 2]) + BasicSimpson12(y, lo + 2, N - 2)

Simpson12OneSample(y, W) ==
    LET N == Cardinality(W)
        lo == CHOOSE i \in W : \A j \in W : i <= j
        hi == lo + N - 1
    IN IF N = 1 THEN 12 * y[lo]
       ELSE IF N = 2 THEN 6 * (y[lo] + y[hi])
       ELSE IF N % 2 = 1 THEN BasicSimpson12(y, lo, N)
       ELSE BasicSimpson12(y, lo, N - 1) + 5 * y[hi] + 8 * y[hi - 1] - y[hi - 2]
\* 12/dx times scipy.integrate.simpson(y[W], dx=dx) for a window W of
\* consecutive rows: one sample integrates to 0, two by the trapezoid rule,
\* an odd number by Simpson's rule, an even number by Simpson's rule on the
\* first N-1 samples plus the correction 5/12, 8/12, -1/12 of the last interval
Simpson12(y, W) ==
    LET N == Cardinality(W)
        lo == CHOOSE i \in W : \A j \in W : i <= j
        hi == lo + N - 1
    IN IF N <= 1 THEN 0
       ELSE IF N = 2 THEN 6 * (y[lo] + y[hi])
       ELSE IF N % 2 = 1 THEN BasicSimpson12(y, lo, N)
       ELSE BasicSimpson12(y, lo, N - 1) + 5 * y[hi] + 8 * y[hi - 1] - y[hi - 2]

\* 2*h times np.gradient(f, h) at index i of the n >= 2 samples f[0 .. n-1]:
\* central differences inside, one-sided differences at the two ends
GradNum(f, i, n) ==
    IF i = 0 THEN 2 * (f[1] - f[0])
    ELSE IF i = n - 1 THEN 2 * (f[n - 1] - f[n - 2])
    ELSE f[i + 1] - f[i - 1]

Column(A, x) == [t \in DOMAIN A |-> A[t][x]]

\* (2*dx*dt)^2 times (dA/dx)^2, dA_dx = np.gradient(A_field, dx, axis=1)
SpaceTerm(A, p) ==
    [t \in DOMAIN A |-> [x \in DOMAIN A[t] |->
        (GradNum(A[t], x, NxOf(A)) * p.dt) * (GradNum(A[t], x, NxOf(A)) * p.dt)]]

\* (2*dx*dt)^2 times (dA/dt)^2, dA_dt = np.gradient(A_field, dt, axis=0)
TimeTerm(A, p) ==
    [t \in DOMAIN A |-> [x \in DOMAIN A[t] |->
        (GradNum(Column(A, x), t, NtOf(A)) * p.dx)
            * (GradNum(Column(A, x), t, NtOf(A)) * p.dx)]]

\* exp(-coef * simpson(integrand[t0:t+1], dx=dt)) for every (t, x), clipped;
\* the exponent is in units of a^2 / (48 * dx^2 * abs(dt)), and coef carries
\* the sign of dt, by which simpson multiplies
ExpOfIntegral(integrand, coef, n_mem) ==
    LET Nt == NtOf(integrand)
    IN [t \in DOMAIN integrand |-> [x \in DOMAIN integrand[t] |->
          Clip01(ExpVal(<<coef * Simpson12(Column(integrand, x), Window(t, n_mem, Nt)), 1>>))]]

gradient_based(A, p) ==
    ExpOfIntegral(SpaceTerm(A, p), p.alpha * Sgn(p.dt), memory_samples(p.tau, p.dt))

energy_like(A, p) ==
    LET sp == SpaceTerm(A, p)
        tm == TimeTerm(A, p)
        integrand == [t \in DOMAIN A |-> [x \in DOMAIN A[t] |-> tm[t][x] + sp[t][x]]]
    IN ExpOfIntegral(integrand, p.beta * Sgn(p.dt), memory_samples(p.tau, p.dt))

\* np.sqrt(np.clip(Cg * Ce, 0.0, 1.0))
hybrid(A, p) ==
    LET Cg == gradient_based(A, p)
        Ce == energy_like(A, p)
    IN [t \in DOMAIN A |-> [x \in DOMAIN A[t] |->
          LET prod == Clip01(ExpVal(RatAdd(<<Cg[t][x].num, Cg[t][x].den>>,
                                           <<Ce[t][x].num, Ce[t][x].den>>)))
          IN ExpVal(RatHalf(<<prod.num, prod.den>>))]]

\* exp(1j * k * pi/2)
UnitRe(k) == CASE k % 4 = 0 -> 1 [] k % 4 = 2 -> -1 [] OTHER -> 0
UnitIm(k) == CASE k % 4 = 1 -> 1 [] k % 4 = 3 -> -1 [] OTHER -> 0

RECURSIVE RatMaxOver(_, _)
\* the largest of the rationals f[i], i in S (S non-empty)
RatMaxOver(f, S) ==
    LET i == CHOOSE j \in S : TRUE
        v == f[i]
    IN IF S = {i} THEN v
       ELSE LET m == RatMaxOver(f, S \ {i}) IN IF RatLe(m, v) THEN v ELSE m

RECURSIVE RatMinOver(_, _)
\* the smallest of the rationals f[i], i in S (S non-empty)
RatMinOver(f, S) ==
    LET i == CHOOSE j \in S : TRUE
        v == f[i]
    IN IF S = {i} THEN v
       ELSE LET m == RatMinOver(f, S \ {i}) IN IF RatLe(v, m) THEN v ELSE m

\* C before the normalisation in phase_wilson_line, squared and indexed
\* [x][t]: (abs(integral) / window)^2, window = max(dt, (t - t0 + 1) * dt),
\* which is dt itself when dt < 0
phase_raw(A, p) ==
    LET Nt == NtOf(A)
        n_mem == memory_samples(p.tau, p.dt)
        \* np.cumsum(A_field, axis=0) * dt, in units of pi/2
        phase == [x \in DOMAIN A[0] |-> [t \in DOMAIN A |->
                     SumOver(Column(A, x), 0 .. t)]]
        re == [x \in DOMAIN A[0] |-> [t \in DOMAIN A |-> UnitRe(phase[x][t])]]
        im == [x \in DOMAIN A[0] |-> [t \in DOMAIN A |-> UnitIm(phase[x][t])]]
    IN [x \in DOMAIN A[0] |-> [t \in DOMAIN A |->
          LET W == Window(t, n_mem, Nt)
              sr == Simpson12(re[x], W)
              sm == Simpson12(im[x], W)
              n == IF p.dt > 0 THEN Max(1, Cardinality(W)) ELSE 1
          IN Norm(<<sr * sr + sm * sm, 144 * n * n>>)]]

\* np.max(C) taken over the whole array
MaxOverArray(C, x, T) ==
    RatMaxOver([q \in (DOMAIN C) \X T |-> C[q[1]][q[2]]], (DOMAIN C) \X T)
\* np.max(C, axis=0, keepdims=True) at column x
MaxOverTime(C, x, T) == RatMaxOver(C[x], T)
\* the least exponent of column x: np.max(C, axis=0) of C = exp(-exponent)
MinOverTime(E, x, T) == RatMinOver(E[x], T)

phase_wilson_line(A, p) ==
    LET raw == phase_raw(A, p)
        \* below 1e-12 only when every sample is 0; for dt < 0 the window is
        \* negative, no sample of C is above 0 and Cmax is 1e-12
        Cmax == [x \in DOMAIN A[0] |-> MaxOverTime(raw, x, DOMAIN A)]
    IN [t \in DOMAIN A |-> [x \in DOMAIN A[t] |->
          IF p.dt < 0 \/ Cmax[x][1] = 0 THEN Clip01(SqrtVal(<<0, 1>>))
          ELSE Clip01(SqrtVal(<<raw[x][t][1] * Cmax[x][2], raw[x][t][2] * Cmax[x][1]>>))]]

\* the exponent of C before the normalisation in entropy_coherence, indexed
\* [x][t]: gamma * np.var(A_field[t0:t+1], axis=0), in units of a^2
entropy_raw(A, p) ==
    LET Nt == NtOf(A)
        n_mem == Max(1, p.tau_entropy \div p.dt)
    IN [x \in DOMAIN A[0] |-> [t \in DOMAIN A |->
          LET W == Window(t, n_mem, Nt)
              n == Cardinality(W)
              s1 == SumOver(Column(A, x), W)
              s2 == SumOver([i \in DOMAIN A |-> A[i][x] * A[i][x]], W)
          IN Norm(<<p.gamma * (n * s2 - s1 * s1), n * n>>)]]

entropy_coherence(A, p) ==
    LET gvar == entropy_raw(A, p)
        \* Cmax = max(1e-12, max_t exp(-gvar)): the row-0 window holds one
        \* sample, its variance is 0 and C[0] = 1, so the maximum is >= 1
        emin == [x \in DOMAIN A[0] |-> MinOverTime(gvar, x, DOMAIN A)]
    IN [t \in DOMAIN A |-> [x \in DOMAIN A[t] |->
          Clip01(ExpVal(RatSub(gvar[x][t], emin[x])))]]

Functionals == <<"grad", "energy", "phase", "hybrid", "entropy">>

Apply(name, A, p) ==
    CASE name = "grad" -> gradient_based(A, p)
      [] name = "energy" -> energy_like(A, p)
      [] name = "phase" -> phase_wilson_line(A, p)
      [] name = "hybrid" -> hybrid(A, p)
      [] name = "entropy" -> entropy_coherence(A, p)

\* a call of a functional on a grid with time step p.dt: with dt = 0 the
\* quotient tau / dt of the memory length raises (ZeroDivisionError for a
\* Python float, OverflowError or ValueError from int() for a numpy float);
\* with any other step the functional returns its array C
functional_call(name, A, p) ==
    IF p.dt = 0 THEN [raised |-> TRUE, error |-> "ZeroDivisionError"]
    ELSE [raised |-> FALSE, C |-> Apply(name, A, p)]

\* the memory length the functional uses
MemOf(name, p) ==
    IF name = "entropy" THEN Max(1, p.tau_entropy \div p.dt)
    ELSE memory_samples(p.tau, p.dt)

---------------------------------------------------------------------------
(* Decoder: decode_bits_from_trace.  Trace samples, features and the        *)
(* threshold are in hundredths; a trace and a bit pattern are functions on *)
(* 0 .. len - 1                                                            *)

Len0(f) == Cardinality(DOMAIN f)

\* the first draws of np.random.default_rng(42).normal(0, 1), in hundredths
Normal42 == <<30, -104, 75, 94, -195, -130, 13, -32, -2, -85>>

\* trace + rng.normal(0, noise_level, trace.shape) when noise_level > 0; a
\* new array, the caller's trace is not written
AddNoise(tr, nl) ==
    IF nl > 0 THEN [j \in DOMAIN tr |-> tr[j] + nl * Normal42[j + 1]] ELSE tr

BitStartNoTrim(i, bd, tm) == i * bd
BitStartTrimOnce(i, bd, tm) == IF i = 0 THEN tm ELSE i * bd
\* s = i * bit_duration + trim
BitStart(i, bd, tm) == i * bd + tm
BitEndShort(i, bd, n) == Min((i + 1) * bd, n - 1)
\* e = min((i + 1) * bit_duration, len(trace))
BitEnd(i, bd, n) == Min((i + 1) * bd, n)

\* feats[i]: float(np.mean(trace[s:e])) if s < e else np.nan
Feature(tr, i, bd, tm) ==
    LET s == BitStart(i, bd, tm)
        e == BitEnd(i, bd, Len0(tr))
    IN IF s < e THEN MeanOver(tr, s .. e - 1) ELSE NaN

\* the k-th smallest (k = 1 ..) of the rationals f[i], i in S
KthSmallest(f, S, k) ==
    f[CHOOSE i \in S :
        /\ Cardinality({j \in S : RatLt(f[j], f[i])}) < k
        /\ Cardinality({j \in S : RatLe(f[j], f[i])}) >= k]

MedianAsMin(f, S) == IF S = {} THEN NaN ELSE KthSmallest(f, S, 1)
\* np.nanmedian(feats_v): NaN for an empty array
Median(f, S) ==
    LET n == Cardinality(S)
    IN IF n = 0 THEN NaN
       ELSE IF n % 2 = 1 THEN KthSmallest(f, S, (n + 1) \div 2)
       ELSE Norm(RatHalf(RatAdd(KthSmallest(f, S, n \div 2),
                                KthSmallest(f, S, n \div 2 + 1))))

ThresholdMeanAll(f, y, V) == IF V = {} THEN NaN ELSE RatMeanOver(f, V)
\* the threshold of decode_bits_from_trace for the features f, the true
\* bits y and the valid bit indices V
Threshold(f, y, V) ==
    LET V0 == {i \in V : y[i] = 0}
        V1 == {i \in V : y[i] = 1}
    IN IF V0 # {} /\ V1 # {}
       THEN Norm(RatHalf(RatAdd(RatMeanOver(f, V0), RatMeanOver(f, V1))))
       ELSE Median(f, V)

PredictGe(feat, thr) == IF RatLe(thr, feat) THEN 1 ELSE 0
PredictBelow(feat, thr) == IF RatLt(feat, thr) THEN 1 ELSE 0
\* (feats_v > threshold).astype(int); a comparison with NaN is False
Predict(feat, thr) == IF RatLt(thr, feat) THEN 1 ELSE 0

BerOverLength(errors, nvalid, nbits) == Norm(<<errors, Max(1, nbits)>>)
BerUnguarded(errors, nvalid, nbits) == Norm(<<errors, nvalid>>)
\* ber = errors / max(1, len(y_true_v))
Ber(errors, nvalid, nbits) == Norm(<<errors, Max(1, nvalid)>>)

decode_bits_from_trace(tr0, bits, bd, tm, nl) ==
    LET tr == AddNoise(tr0, nl)
        nbits == Len0(bits)
        feats == [i \in DOMAIN bits |-> Feature(tr, i, bd, tm)]
        valid == {i \in DOMAIN bits : IsFinite(feats[i])}
        threshold == Threshold(feats, bits, valid)
        y_pred == [i \in DOMAIN bits |->
                      IF i \in valid THEN Predict(feats[i], threshold) ELSE -1]
        errors == Cardinality({i \in valid : y_pred[i] # bits[i]})
        ber == Ber(errors, Cardinality(valid), nbits)
    IN [features |-> feats,
        threshold |-> threshold,
        y_true |-> bits,
        y_pred |-> y_pred,
        ber |-> ber,
        accuracy |-> Norm(RatSub(<<1, 1>>, ber)),
        errors |-> errors,
        nbits_valid |-> Cardinality(valid),
        noise_level |-> nl]

---------------------------------------------------------------------------
(* Field generator, as far as the harness reads it: the metadata *)

MessageModes == {"modulated", "phase_modulated", "freq_modulated", "two_node"}
PlainModes == {"smooth", "turbulent"}

\* generate_em_field(mode, x, t, params) with Nt = len(t) and
\* bits = params["bit_pattern"]: the field itself is not kept, only whether
\* the call raised and the meta dict it returned
generate_em_field(mode, Nt, bits) ==
    IF mode \in PlainModes
    THEN [raised |-> FALSE, meta |-> <<>>]
    ELSE IF mode \in MessageModes
    THEN [raised |-> FALSE,
          meta |-> [bit_pattern |-> bits,
                    bit_duration |-> Max(1, Nt \div Len0(bits))]]
    ELSE [raised |-> TRUE, error |-> "ValueError"]

bit_dur_nomax(Nt, bits) == Nt \div Len0(bits)
\* bit_dur = max(1, len(t) // len(bits)), bits non-empty
bit_dur(Nt, bits) == Max(1, Nt \div Len0(bits))

\* _bits_to_levels: 1 if b else -1
bits_to_levels(bits) == [i \in DOMAIN bits |-> IF bits[i] # 0 THEN 1 ELSE -1]

\* a per-time signal of Nt zeros in which every bit i writes val[i] to the
\* slice [i * bit_dur : min((i + 1) * bit_dur, len(t))]; the slices are
\* disjoint, and a slice that starts at or after len(t) is empty
HeldPerBit(Nt, bits, val) ==
    LET bd == bit_dur(Nt, bits)
        Writers(j) == {i \in DOMAIN bits : i * bd <= j /\ j < Min((i + 1) * bd, Nt)}
    IN [j \in 0 .. Nt - 1 |->
          IF Writers(j) = {} THEN 0 ELSE val[CHOOSE i \in Writers(j) : TRUE]]

envelope_late(Nt, bits) ==
    LET bd == bit_dur(Nt, bits)
        levels == bits_to_levels(bits)
        Writers(j) == {i \in DOMAIN bits : i * bd < j /\ j < Min((i + 1) * bd, Nt)}
    IN [j \in 0 .. Nt - 1 |->
          IF Writers(j) = {} THEN 0 ELSE levels[CHOOSE i \in Writers(j) : TRUE]]
\* envelope = np.zeros_like(t); envelope[i*bit_dur : min(...)] = lvl
envelope_of(Nt, bits) == HeldPerBit(Nt, bits, bits_to_levels(bits))

\* a coupling speed: a float that is finite (val, an integer number of grid
\* units per time unit) or not (inf or nan)
Speed(val) == [finite |-> TRUE, val |-> val]
Infinite == [finite |-> FALSE, val |-> 0]

\* round() of the rational num/den, den > 0: to the nearest integer, a tie to
\* the even one
RoundHalfEven(num, den) ==
    LET q == num \div den
        twice == 2 * (num - q * den)
    IN IF twice < den THEN q
       ELSE IF twice > den THEN q + 1
       ELSE IF q % 2 = 0 THEN q ELSE q + 1

delay_steps_trunc(dist, v, dt) ==
    IF ~v.finite THEN 0
    ELSE IF v.val > 0 THEN dist \div (v.val * dt)
    ELSE -(dist \div (-v.val * dt))
\* delay = 0.0 if not np.isfinite(v) else abs(x_B - x_A) / v;
\* delay_steps = int(round(delay / (t[1] - t[0]))), for v # 0 and dt # 0;
\* dist = abs(x_B - x_A)
delay_steps(dist, v, dt) ==
    IF ~v.finite THEN 0
    ELSE IF v.val * dt > 0 THEN RoundHalfEven(dist, v.val * dt)
    ELSE RoundHalfEven(-dist, -v.val * dt)

\* np.roll(a, d): the element at i moves to (i + d) mod len(a)
roll(a, d) == [i \in DOMAIN a |-> a[(i - d) % Len0(a)]]

roll_only(envelope, d) == roll(envelope, d)
\* env_delayed = np.roll(envelope, delay_steps);
\* if delay_steps > 0: env_delayed[:delay_steps] = 0.0
env_delayed_of(envelope, d) ==
    LET rolled == roll(envelope, d)
    IN IF d > 0 THEN [i \in DOMAIN envelope |-> IF i < d THEN 0 ELSE rolled[i]]
       ELSE rolled

Raise(error) == [raised |-> TRUE, error |-> error]

\* the whole call generate_em_field(mode, x, t, params) for the arguments
\* in = [mode, Nt, bits, enable_coupling, coupling_speed, dist, dt]: the error
\* it raises, or the meta dict it returns together with the delay and the
\* delayed envelope it writes into the field (the carrier is not kept)
generate_call(in) ==
    LET Nt == in.Nt
        bits == in.bits
    IN IF in.mode \in PlainModes THEN [raised |-> FALSE, meta |-> <<>>]
       ELSE IF in.mode \notin MessageModes THEN Raise("ValueError")
       ELSE IF Len0(bits) = 0 THEN Raise("ZeroDivisionError")
       ELSE IF in.mode = "modulated"
       THEN [raised |-> FALSE,
             meta |-> [bit_pattern |-> bits, bit_duration |-> bit_dur(Nt, bits),
                       envelope |-> envelope_of(Nt, bits)]]
       ELSE IF in.mode = "phase_modulated"
       THEN [raised |-> FALSE,
             meta |-> [bit_pattern |-> bits, bit_duration |-> bit_dur(Nt, bits),
                       phase_shift |-> HeldPerBit(Nt, bits,
                           [i \in DOMAIN bits |-> IF bits[i] = 1 THEN 1 ELSE 0])]]
       ELSE IF in.mode = "freq_modulated"
       THEN [raised |-> FALSE,
             meta |-> [bit_pattern |-> bits, bit_duration |-> bit_dur(Nt, bits),
                       freq_signal |-> HeldPerBit(Nt, bits,
                           [i \in DOMAIN bits |-> IF bits[i] = 1 THEN 6 ELSE 4])]]
       ELSE \* two_node
         LET envelope == envelope_of(Nt, bits)
             v == in.coupling_speed
             m == [bit_pattern |-> bits, bit_duration |-> bit_dur(Nt, bits),
                   envelope |-> envelope,
                   enable_coupling |-> in.enable_coupling,
                   coupling_speed |-> v]
         IN IF ~in.enable_coupling THEN [raised |-> FALSE, meta |-> m]
            ELSE IF v.finite /\ v.val = 0 THEN Raise("ZeroDivisionError")
            ELSE IF Nt < 2 THEN Raise("IndexError")
            \* t[1] - t[0] = 0: the quotient is nan or inf and round() raises
            ELSE IF in.dt = 0
            THEN Raise(IF ~v.finite \/ in.dist = 0 THEN "ValueError" ELSE "OverflowError")
            ELSE LET d == delay_steps(in.dist, v, in.dt)
                 IN [raised |-> FALSE, meta |-> m,
                     delay_steps |-> d,
                     env_delayed |-> env_delayed_of(envelope, d)]

---------------------------------------------------------------------------
(* Benchmark harness: ber_leaderboard *)

CatchesNothing(error) == FALSE
\* except Exception: every error generate_em_field raises is caught
Catches(error) == TRUE

HasBitMetadataAlways(m) == TRUE
\* the test the harness makes before it reads the metadata
HasBitMetadata(m) == "bit_pattern" \in DOMAIN m /\ "bit_duration" \in DOMAIN m

\* trim = max(1, bit_duration // 10)
HarnessTrim(bd) == Max(1, bd \div 10)

\* margin = mu1 - mu0 when both classes are among the valid bits, else NaN
Margin(d) ==
    LET V == {i \in DOMAIN d.features : IsFinite(d.features[i])}
        V0 == {i \in V : d.y_true[i] = 0}
        V1 == {i \in V : d.y_true[i] = 1}
    IN IF V0 # {} /\ V1 # {}
       THEN Norm(RatSub(RatMeanOver(d.features, V1), RatMeanOver(d.features, V0)))
       ELSE NaN

Entry(label, mode, fname, d) ==
    [modulation |-> label, mode |-> mode, functional |-> fname,
     ber |-> d.ber, acc |-> d.accuracy, errors |-> d.errors,
     nbits |-> d.nbits_valid, threshold |-> d.threshold, margin |-> Margin(d)]

\* the order of the modulation labels as Python compares strings
LabelRank == [AM |-> 1, FSK |-> 2, PM |-> 3, SM |-> 4, XX |-> 5]

\* np.nan_to_num(margin): NaN becomes 0.0
nan_to_num(r) == IF IsFinite(r) THEN r ELSE <<0, 1>>

\* key(a) < key(b) for key = (modulation, ber, -np.nan_to_num(margin))
KeyLess(a, b) ==
    LET ma == RatNeg(nan_to_num(a.margin))
        mb == RatNeg(nan_to_num(b.margin))
    IN \/ LabelRank[a.modulation] < LabelRank[b.modulation]
       \/ /\ a.modulation = b.modulation
          /\ \/ RatLt(a.ber, b.ber)
             \/ RatEq(a.ber, b.ber) /\ RatLt(ma, mb)

RECURSIVE InsertByKey(_, _)
\* e placed after every entry of the sorted list whose key is not greater
InsertByKey(e, sorted) ==
    IF sorted = <<>> THEN <<e>>
    ELSE IF KeyLess(e, Head(sorted)) THEN <<e>> \o sorted
    ELSE <<Head(sorted)>> \o InsertByKey(e, Tail(sorted))

RECURSIVE SortedFrom(_, _)
SortedFrom(list, acc) ==
    IF list = <<>> THEN acc
    ELSE SortedFrom(Tail(list), InsertByKey(Head(list), acc))

\* sorted(results, key=...): a stable sort
SortedByKey(list) == SortedFrom(list, <<>>)

---------------------------------------------------------------------------
(* The functional library as a state machine: one call of one functional,  *)
(* made on A_field and, for comparison, on B_field                         *)

Fields == [0 .. FnNt - 1 -> [0 .. FnNx - 1 -> FieldValues]]

\* alpha, beta, gamma; tau, tau_entropy and dt in milliseconds; dx in grid units
DefaultParams ==
    [alpha |-> 2, beta |-> 1, gamma |-> 1, tau |-> 50, tau_entropy |-> 50,
     dt |-> 25, dx |-> 1]
Params ==
    { DefaultParams,
      [alpha |-> -1, beta |-> -1, gamma |-> -1, tau |-> 50, tau_entropy |-> 50,
       dt |-> 50, dx |-> 1],
      [alpha |-> 1, beta |-> 2, gamma |-> 2, tau |-> 175, tau_entropy |-> 160,
       dt |-> 100, dx |-> 2] }

\* A with the sample at (t, x) replaced by v
Poke(A, t, x, v) == [A EXCEPT ![t][x] = v]

DecIdle ==
    /\ trace = <<>> /\ bit_pattern = <<>> /\ bit_duration = 1 /\ trim = 0
    /\ noise_level = 0 /\ dec = [returned |-> FALSE]
LbIdle ==
    /\ scenarios = <<>> /\ lb_Nt = 0 /\ lb_pc = "idle" /\ si = 0 /\ fi = 0
    /\ meta = <<>> /\ results = <<>> /\ results_sorted = <<>> /\ log = <<>>
GenIdle == gen_in = <<>> /\ gen_out = <<>> /\ idx_probe = 0
SimIdle ==
    /\ sim_p = <<>> /\ channels = <<>> /\ objects = <<>> /\ nodes = <<>>
    /\ time = <<>> /\ EB_signal = <<>> /\ sender_idx = 0 /\ sim_pc = "idle"
    /\ sim_n = 0 /\ sim_i = 0 /\ rng = <<>>
FnIdle ==
    /\ A_field = <<>> /\ B_field = <<>> /\ em = <<>> /\ fn = "idle"
    /\ C_out = <<>> /\ C_outB = <<>> /\ windows = <<>>

InitFn ==
    /\ A_field \in Fields
    /\ B_field = A_field
    /\ em \in Params
    /\ fn = "none" /\ C_out = <<>> /\ C_outB = <<>> /\ windows = <<>>
    /\ DecIdle /\ LbIdle /\ SimIdle /\ GenIdle

\* the second field differs from the first in one sample
InitCausal ==
    /\ A_field \in Fields
    /\ \E t \in 0 .. FnNt - 1, x \in 0 .. FnNx - 1, v \in FieldValues :
          /\ v # A_field[t][x]
          /\ B_field = Poke(A_field, t, x, v)
    /\ em = DefaultParams
    /\ fn = "none" /\ C_out = <<>> /\ C_outB = <<>> /\ windows = <<>>
    /\ DecIdle /\ LbIdle /\ SimIdle /\ GenIdle

CumsumInPlace(name, A) ==
    IF name = "phase"
    THEN [t \in DOMAIN A |-> [x \in DOMAIN A[t] |-> SumOver(Column(A, x), 0 .. t)]]
    ELSE A
\* the caller's array after the functional returned: every functional
\* reads A_field and writes to arrays of its own (np.gradient, np.cumsum
\* and ** allocate; C = np.zeros_like(A_field))
FieldAfter(name, A) == A

Call(name) ==
    /\ fn = "none"
    /\ fn' = name
    /\ C_out' = Apply(name, A_field, em)
    /\ C_outB' = Apply(name, B_field, em)
    /\ windows' = [t \in DOMAIN A_field |-> Window(t, MemOf(name, em), NtOf(A_field))]
    /\ A_field' = FieldAfter(name, A_field)
    /\ UNCHANGED <<B_field, em, decVars, lbVars, genVars, simVars>>

GradientBased == Call("grad")
EnergyLike == Call("energy")
PhaseWilsonLine == Call("phase")
Hybrid == Call("hybrid")
EntropyCoherence == Call("entropy")

NextFn ==
    \/ GradientBased
    \/ EnergyLike
    \/ PhaseWilsonLine
    \/ Hybrid
    \/ EntropyCoherence

SpecFn == InitFn /\ [][NextFn]_vars
SpecCausal == InitCausal /\ [][NextFn]_vars

\* the first row in which the two fields differ (FnNt when they agree)
FirstDiff ==
    IF \E t \in DOMAIN A_field : A_field[t] # B_field[t]
    THEN CHOOSE t \in DOMAIN A_field :
            /\ A_field[t] # B_field[t]
            /\ \A s \in DOMAIN A_field : s < t => A_field[s] = B_field[s]
    ELSE FnNt

\* C1: strict causality, for every functional: two fields that agree on all
\* rows <= t give the same output row at t
C1_StrictCausality ==
    fn \in {"grad", "energy", "phase", "hybrid", "entropy"} =>
        \A t \in DOMAIN A_field : t < FirstDiff =>
            \A x \in DOMAIN A_field[t] : SameValue(C_out[t][x], C_outB[t][x])

\* the part of C1 the code satisfies: the gradient functional is causal, and
\* so is the entropy baseline when gamma >= 0
GradientCausal ==
    fn \in {"grad", "entropy"} =>
        \A t \in DOMAIN A_field : t < FirstDiff =>
            \A x \in DOMAIN A_field[t] : SameValue(C_out[t][x], C_outB[t][x])

\* C2: every output entry lies in [0, 1] and the output has the input's shape
C2_UnitRange ==
    fn \in {"grad", "energy", "phase", "hybrid", "entropy"} =>
        /\ DOMAIN C_out = DOMAIN A_field
        /\ \A t \in DOMAIN A_field :
              /\ DOMAIN C_out[t] = DOMAIN A_field[t]
              /\ \A x \in DOMAIN A_field[t] : InUnit(C_out[t][x])

\* a gradient call with negative alpha on a field with a non-zero spatial
\* gradient in row 1: the unclipped value exceeds 1
C2_Witness ==
    /\ fn = "grad"
    /\ em.alpha < 0
    /\ A_field[1][0] # A_field[1][1]
    /\ C_out[1][0] = One

\* C3: the integrated rows at t are exactly max(0, t - n_mem) .. t
C3_WindowRows ==
    fn \in {"grad", "energy", "phase", "hybrid", "entropy"} =>
        LET n == MemOf(fn, em)
        IN \A t \in 0 .. FnNt - 1 :
              /\ windows[t] = Max(0, t - n) .. t
              /\ Cardinality(windows[t]) = Min(t, n) + 1
              /\ Max(0, t - n) \in windows[t]
              /\ t \in windows[t]
              /\ \A i \in windows[t] : i <= t /\ i >= t - n

\* a call whose window is cut at row 0 and one whose window is full length
C3_Witness ==
    /\ fn = "energy"
    /\ MemOf(fn, em) = 2
    /\ windows[1] = {0, 1}
    /\ windows[FnNt - 1] = {FnNt - 3, FnNt - 2, FnNt - 1}

\* the memory window of the functional that ran, and the step of the grid
TauOf(name, p) == IF name = "entropy" THEN p.tau_entropy ELSE p.tau

\* C13: every functional uses n_mem = max(1, round(memory_window / dt))
\* samples of memory, the quotient rounded to the nearest integer
C13_MemoryRounded ==
    fn \in {"grad", "energy", "phase", "hybrid", "entropy"} =>
        LET n == Max(1, RoundHalfEven(TauOf(fn, em), em.dt))
        IN \A t \in 0 .. FnNt - 1 : windows[t] = Max(0, t - n) .. t

\* what the code does instead: the quotient is truncated, and the result is
\* never below 1
C13_MemoryTruncated ==
    fn \in {"grad", "energy", "phase", "hybrid", "entropy"} =>
        LET n == Max(1, TauOf(fn, em) \div em.dt)
        IN /\ n >= 1
           /\ TauOf(fn, em) < em.dt => n = 1
           /\ \A t \in 0 .. FnNt - 1 : windows[t] = Max(0, t - n) .. t

\* C21: the phase and the entropy functional divide every column by that
\* column's own maximum over time: the output is raw / max_t raw, a column
\* whose raw maximum is not below 1e-12 attains 1, and no value exceeds 1
C21_ColumnNormalised ==
    /\ fn = "phase" =>
          LET raw == phase_raw(A_field, em)
          IN \A x \in DOMAIN A_field[0] :
                (\E t \in DOMAIN A_field : raw[x][t][1] # 0) =>
                    /\ \A t \in DOMAIN A_field : C_out[t][x].num <= C_out[t][x].den
                    /\ \E tm \in DOMAIN A_field :
                          /\ \A t \in DOMAIN A_field : RatLe(raw[x][t], raw[x][tm])
                          /\ C_out[tm][x] = SqrtVal(<<1, 1>>)
                          /\ \A t \in DOMAIN A_field :
                                C_out[t][x].num * raw[x][tm][1] * raw[x][t][2]
                                    = C_out[t][x].den * raw[x][t][1] * raw[x][tm][2]
    /\ fn = "entropy" =>
          LET raw == entropy_raw(A_field, em)
          IN \A x \in DOMAIN A_field[0] :
                /\ \A t \in DOMAIN A_field : C_out[t][x].num >= 0
                /\ \E tm \in DOMAIN A_field :
                      /\ \A t \in DOMAIN A_field : RatLe(raw[x][tm], raw[x][t])
                      /\ C_out[tm][x] = One
                      /\ \A t \in DOMAIN A_field :
                            RatEq(<<C_out[t][x].num, C_out[t][x].den>>,
                                  RatSub(raw[x][t], raw[x][tm]))

\* a phase call on a field whose two first columns have different non-zero
\* maxima: each column attains 1 at its own maximum
C21_Witness ==
    /\ fn = "phase"
    /\ LET raw == phase_raw(A_field, em)
       IN /\ raw[0][FnNt - 1][1] # 0 /\ raw[1][FnNt - 1][1] # 0
          /\ ~RatEq(MaxOverTime(raw, 0, DOMAIN A_field),
                    MaxOverTime(raw, 1, DOMAIN A_field))
    /\ \E t \in DOMAIN A_field : C_out[t][0] = SqrtVal(<<1, 1>>)
    /\ \E t \in DOMAIN A_field : C_out[t][1] = SqrtVal(<<1, 1>>)

\* an entropy call with gamma < 0 on a column that varies: the raw maximum
\* exceeds 1 and the division lowers the sample of row 0 below 1
C21_WitnessEntropy ==
    /\ fn = "entropy"
    /\ em.gamma < 0
    /\ C_out[0][0] # One
    /\ \E t \in DOMAIN A_field : C_out[t][0] = One

\* C30: at time index 0 the window is the single row 0, its integral is 0,
\* and the gradient, energy-like and hybrid outputs are exactly 1 in every
\* column, for every field and every alpha and beta
C30_FirstRowIsOne ==
    fn \in {"grad", "energy", "hybrid"} =>
        /\ windows[0] = {0}
        /\ \A x \in DOMAIN A_field[0] :
              /\ Simpson12(Column(SpaceTerm(A_field, em), x), windows[0]) = 0
              /\ Simpson12(Column(TimeTerm(A_field, em), x), windows[0]) = 0
              /\ C_out[0][x] = One

\* a hybrid call on a field whose row 0 has a non-zero gradient in space and
\* in time: row 0 of the output is 1, a later row is below 1
C30_Witness ==
    /\ fn = "hybrid"
    /\ em.alpha > 0 /\ em.beta > 0
    /\ SpaceTerm(A_field, em)[0][0] # 0
    /\ TimeTerm(A_field, em)[0][0] # 0
    /\ C_out[0][0] = One
    /\ C_out[1][0] # One

---------------------------------------------------------------------------
(* The decoder as a state machine: one call of decode_bits_from_trace *)

Traces == UNION {[0 .. n - 1 -> TraceValues] : n \in 0 .. MaxTraceLen}
BitPatterns == UNION {[0 .. n - 1 -> {0, 1}] : n \in 0 .. MaxBits}

NoResult == [returned |-> FALSE]

InitDec ==
    /\ trace \in Traces
    /\ bit_pattern \in BitPatterns
    /\ bit_duration \in 1 .. MaxDur
    /\ trim \in 0 .. MaxTrim
    /\ noise_level \in {0, 1}
    /\ dec = NoResult
    /\ FnIdle /\ LbIdle /\ SimIdle /\ GenIdle

NoisedInPlace(tr, nl) == AddNoise(tr, nl)
\* the caller's array after decode returned: trace = trace + noise binds the
\* local name to a new array
TraceAfter(tr, nl) == tr

Decode ==
    /\ dec = NoResult
    /\ dec' = [returned |-> TRUE,
               result |-> decode_bits_from_trace(trace, bit_pattern, bit_duration,
                                                 trim, noise_level)]
    /\ trace' = TraceAfter(trace, noise_level)
    /\ UNCHANGED <<bit_pattern, bit_duration, trim, noise_level, fnVars, lbVars, genVars, simVars>>

NextDec == Decode

SpecDec == InitDec /\ [][NextDec]_vars

\* the decoder's inputs and outputs, as the claims name them
DecTrace == AddNoise(trace, noise_level)
DecS(i) == i * bit_duration + trim
DecE(i) == Min((i + 1) * bit_duration, Len0(trace))
InRange == {i \in DOMAIN bit_pattern : DecS(i) < DecE(i)}
ValidBits == {i \in DOMAIN bit_pattern : IsFinite(dec.result.features[i])}
Valid0 == {i \in ValidBits : bit_pattern[i] = 0}
Valid1 == {i \in ValidBits : bit_pattern[i] = 1}
\* the sum of the rationals f[i], i in S, divided by the size of S
ClassMean(f, S) == <<RatSumOver(f, S)[1], RatSumOver(f, S)[2] * Cardinality(S)>>

\* C4: the feature of bit i is the mean of the trace over
\* [i*bit_duration + trim, min((i+1)*bit_duration, len(trace))); a bit with
\* an empty range has a NaN feature and is left out of the threshold
\* calibration, the error count and the valid-bit count, and decode returns
C4_Features ==
    dec.returned =>
        LET R == dec.result
        IN /\ DOMAIN R.features = DOMAIN bit_pattern
           /\ \A i \in DOMAIN bit_pattern :
                 IF DecS(i) < DecE(i)
                 THEN /\ IsFinite(R.features[i])
                      /\ R.features[i][1] * (DecE(i) - DecS(i))
                            = R.features[i][2] * SumOver(DecTrace, DecS(i) .. DecE(i) - 1)
                 ELSE /\ R.features[i] = NaN
                      /\ R.y_pred[i] = -1
           /\ R.nbits_valid = Cardinality(InRange)
           /\ R.errors = Cardinality({i \in InRange : R.y_pred[i] # bit_pattern[i]})
           /\ R.threshold = Threshold(R.features, bit_pattern, InRange)

\* a decode with trim > 0 in which one bit is out of range, another is in
\* range and mispredicted
C4_Witness ==
    /\ dec.returned
    /\ trim > 0
    /\ InRange # {} /\ InRange # DOMAIN bit_pattern
    /\ dec.result.errors > 0

\* C5: with both classes among the valid bits the threshold is the midpoint
\* of the two class means; otherwise it is the median of the valid features
C5_Threshold ==
    dec.returned =>
        LET R == dec.result
            f == R.features
            thr == R.threshold
            n == Cardinality(ValidBits)
        IN IF Valid0 # {} /\ Valid1 # {}
           THEN RatEq(RatAdd(thr, thr), RatAdd(ClassMean(f, Valid0), ClassMean(f, Valid1)))
           ELSE IF n = 0 THEN thr = NaN
           ELSE /\ IsFinite(thr)
                /\ 2 * Cardinality({i \in ValidBits : RatLt(f[i], thr)}) <= n
                /\ 2 * Cardinality({i \in ValidBits : RatLt(thr, f[i])}) <= n
                /\ n % 2 = 1 => \E i \in ValidBits : RatEq(f[i], thr)
                /\ n % 2 = 0 =>
                      \E i, j \in ValidBits :
                         /\ i # j
                         /\ RatEq(RatAdd(thr, thr), RatAdd(f[i], f[j]))
                         /\ ~ \E k \in ValidBits : RatLt(f[i], f[k]) /\ RatLt(f[k], f[j])

\* both classes valid, of different sizes, and the midpoint of the class
\* means is not the mean of all valid features
C5_Witness ==
    /\ dec.returned
    /\ Valid0 # {} /\ Valid1 # {}
    /\ Cardinality(Valid0) # Cardinality(Valid1)
    /\ ~RatEq(dec.result.threshold, ClassMean(dec.result.features, ValidBits))

\* the single-class case with an even number of distinct valid features
C5_WitnessMedian ==
    /\ dec.returned
    /\ Valid0 = {} /\ Cardinality(Valid1) = 2
    /\ \E i, j \in Valid1 : RatLt(dec.result.features[i], dec.result.features[j])

\* C6: BER is the number of mispredicted valid bits divided by the number of
\* valid bits; with no valid bit decode returns BER 0 and nbits_valid 0
C6_Ber ==
    dec.returned =>
        LET R == dec.result
            nv == Cardinality(ValidBits)
            wrong == Cardinality({i \in ValidBits : R.y_pred[i] # bit_pattern[i]})
        IN /\ R.nbits_valid = nv
           /\ nv > 0 => IsFinite(R.ber) /\ R.ber[1] * nv = wrong * R.ber[2]
           /\ nv = 0 => R.ber = <<0, 1>>

\* some bits invalid, some valid, and at least one error: dividing by the
\* pattern length would give another number
C6_Witness ==
    /\ dec.returned
    /\ ValidBits # {} /\ ValidBits # DOMAIN bit_pattern
    /\ dec.result.errors > 0

\* every bit invalid because trim >= bit_duration
C6_WitnessEmpty ==
    /\ dec.returned
    /\ bit_pattern # <<>> /\ trace # <<>> /\ trim >= bit_duration
    /\ dec.result.nbits_valid = 0 /\ dec.result.ber = <<0, 1>>

\* C7: a valid bit is predicted 1 exactly when its feature is strictly
\* greater than the threshold; a feature equal to the threshold gives 0
C7_StrictThreshold ==
    dec.returned =>
        LET R == dec.result
        IN \A i \in ValidBits :
              /\ R.y_pred[i] \in {0, 1}
              /\ R.y_pred[i] = 1 <=> RatLt(R.threshold, R.features[i])
              /\ RatEq(R.features[i], R.threshold) => R.y_pred[i] = 0

\* a valid bit whose feature equals the threshold, next to one above it
C7_Witness ==
    /\ dec.returned
    /\ \E i, j \in ValidBits :
          /\ RatEq(dec.result.features[i], dec.result.threshold)
          /\ dec.result.y_pred[i] = 0
          /\ dec.result.y_pred[j] = 1

\* every valid feature of a true-1 bit is above every valid feature of a
\* true-0 bit, and both classes occur
Separable ==
    /\ Valid0 # {} /\ Valid1 # {}
    /\ \A i \in Valid1 : \A j \in Valid0 :
          RatLt(dec.result.features[j], dec.result.features[i])

\* twice the midpoint of the two class means
TwiceMidpoint ==
    RatAdd(ClassMean(dec.result.features, Valid0), ClassMean(dec.result.features, Valid1))

\* the midpoint of the class means lies between the two classes
SeparatedByMidpoint ==
    /\ Valid0 # {} /\ Valid1 # {}
    /\ \A i \in Valid1 :
          RatLt(TwiceMidpoint, RatAdd(dec.result.features[i], dec.result.features[i]))
    /\ \A j \in Valid0 :
          RatLe(RatAdd(dec.result.features[j], dec.result.features[j]), TwiceMidpoint)

\* C25: perfectly separable features of both classes decode with zero errors
\* and BER 0
C25_SeparableDecodes ==
    dec.returned /\ Separable =>
        dec.result.errors = 0 /\ dec.result.ber = <<0, 1>>

\* what holds instead: zero errors when the midpoint of the class means
\* separates the classes, which separable features do when each class has
\* one valid bit
C25_MidpointSeparates ==
    dec.returned =>
        /\ SeparatedByMidpoint =>
              /\ dec.result.errors = 0 /\ dec.result.ber = <<0, 1>>
              /\ \A i \in ValidBits : dec.result.y_pred[i] = bit_pattern[i]
        /\ Separable /\ Cardinality(Valid0) = 1 /\ Cardinality(Valid1) = 1 =>
              dec.result.errors = 0 /\ dec.result.ber = <<0, 1>>

\* three valid bits, two of them of one class with different features, the
\* midpoint between the classes, and no error
C25_Witness ==
    /\ dec.returned
    /\ SeparatedByMidpoint
    /\ Cardinality(ValidBits) = 3
    /\ \E i, j \in ValidBits :
          /\ bit_pattern[i] = bit_pattern[j]
          /\ RatLt(dec.result.features[i], dec.result.features[j])
    /\ dec.result.errors = 0

\* the valid bits are of one class (or there is none): the median branch
SingleClass == Valid0 = {} \/ Valid1 = {}
PredictedOnes == {i \in ValidBits : dec.result.y_pred[i] = 1}
\* a message of at least one bit, all of one value
AllOnes == bit_pattern # <<>> /\ \A i \in DOMAIN bit_pattern : bit_pattern[i] = 1
AllZeros == bit_pattern # <<>> /\ \A i \in DOMAIN bit_pattern : bit_pattern[i] = 0

\* C27: in the single-class case at most floor(n/2) of the n valid bits are
\* predicted 1; an all-ones message has at least ceil(n/2) errors and
\* BER >= 1/2 whatever the trace, an all-zeros message at most floor(n/2)
C27_MedianHalf ==
    dec.returned /\ SingleClass =>
        LET n == Cardinality(ValidBits)
        IN /\ 2 * Cardinality(PredictedOnes) <= n
           /\ AllOnes => 2 * dec.result.errors >= n /\ RatLe(<<1, 2>>, dec.result.ber)
           /\ AllZeros => 2 * dec.result.errors <= n

\* what holds instead: the bound on BER needs a valid bit; with none, the
\* all-ones message decodes with BER 0
C27_MedianHalfOfValid ==
    dec.returned /\ SingleClass =>
        LET n == Cardinality(ValidBits)
        IN /\ 2 * Cardinality(PredictedOnes) <= n
           /\ AllOnes => 2 * dec.result.errors >= n
           /\ AllOnes /\ n >= 1 => RatLe(<<1, 2>>, dec.result.ber)
           /\ AllOnes /\ n = 0 => dec.result.ber = <<0, 1>>
           /\ AllZeros => 2 * dec.result.errors <= n

\* an all-ones message with three valid bits of which the one above the
\* median decodes as 1: two errors
C27_Witness ==
    /\ dec.returned
    /\ AllOnes
    /\ Cardinality(ValidBits) = 3
    /\ Cardinality(PredictedOnes) = 1
    /\ dec.result.errors = 2

\* an all-zeros message with two valid bits, one of them above the median
C27_WitnessZeros ==
    /\ dec.returned
    /\ AllZeros
    /\ Cardinality(ValidBits) = 2
    /\ dec.result.errors = 1

\* C28: in every decode result y_pred is -1 exactly at the invalid bits and
\* 0 or 1 at the valid ones, 0 <= errors <= nbits_valid <= len(bit_pattern),
\* 0 <= BER <= 1, accuracy = 1 - BER, and features has one entry per bit
C28_ResultShape ==
    dec.returned =>
        LET R == dec.result
        IN /\ DOMAIN R.features = DOMAIN bit_pattern
           /\ DOMAIN R.y_pred = DOMAIN bit_pattern
           /\ \A i \in DOMAIN bit_pattern :
                 /\ R.y_pred[i] = -1 <=> i \notin ValidBits
                 /\ i \in ValidBits => R.y_pred[i] \in {0, 1}
           /\ 0 <= R.errors
           /\ R.errors <= R.nbits_valid
           /\ R.nbits_valid <= Len0(bit_pattern)
           /\ RatLe(<<0, 1>>, R.ber) /\ RatLe(R.ber, <<1, 1>>)
           /\ RatEq(RatAdd(R.accuracy, R.ber), <<1, 1>>)

\* a decode with an invalid bit and two valid ones, one of them wrong
C28_Witness ==
    /\ dec.returned
    /\ Len0(bit_pattern) = 3
    /\ dec.result.nbits_valid = 2
    /\ dec.result.errors = 1
    /\ dec.result.y_pred[2] = -1
    /\ dec.result.ber = <<1, 2>> /\ dec.result.accuracy = <<1, 2>>

\* a decode with no valid bit: BER 0, accuracy 1, every prediction -1
C28_WitnessEmpty ==
    /\ dec.returned
    /\ Len0(bit_pattern) = 2
    /\ dec.result.nbits_valid = 0
    /\ dec.result.ber = <<0, 1>> /\ dec.result.accuracy = <<1, 1>>
    /\ \A i \in DOMAIN bit_pattern : dec.result.y_pred[i] = -1

\* C29: for a finite trace, bit_duration >= 1 and trim >= 0 the valid bits
\* are a prefix of the pattern: after a bit without a valid feature no bit
\* has one, and nbits_valid counts the i with
\* i*bit_duration + trim < min((i+1)*bit_duration, len(trace))
C29_ValidPrefix ==
    dec.returned /\ bit_duration >= 1 /\ trim >= 0 =>
        LET R == dec.result
            n == Len0(trace)
        IN /\ \A i, j \in DOMAIN bit_pattern :
                 i < j /\ ~IsFinite(R.features[i]) => ~IsFinite(R.features[j])
           /\ R.nbits_valid =
                 Cardinality({i \in 0 .. Len0(bit_pattern) - 1 :
                     i * bit_duration + trim < Min((i + 1) * bit_duration, n)})
           /\ ValidBits = 0 .. R.nbits_valid - 1

\* the trace ends inside the pattern: the first two bits are valid, the
\* third is not
C29_Witness ==
    /\ dec.returned
    /\ Len0(bit_pattern) = 3
    /\ ValidBits = {0, 1}
    /\ trim < bit_duration
    /\ Len0(trace) < 3 * bit_duration

\* the trim leaves the last bit that starts inside the trace without a sample
C29_WitnessTrim ==
    /\ dec.returned
    /\ trim > 0 /\ trim < bit_duration
    /\ ValidBits = {0}
    /\ Len0(bit_pattern) >= 2
    /\ bit_duration < Len0(trace)

\* the first draws of np.random.default_rng(0).normal(0, 1), in hundredths
Normal0 == <<13, -13, 64, 10, -54, 36, 130, 95, -70, -127>>
\* the seeds a caller may want the decode noise drawn from
CallerSeeds == {0, 42}
NormalOf(seed) == IF seed = 42 THEN Normal42 ELSE Normal0
\* the trace with the noise of the stream of the given seed added
NoisyWith(seed) == [j \in DOMAIN trace |-> trace[j] + noise_level * NormalOf(seed)[j + 1]]

\* C14: the noise decode adds is drawn from the seed the caller supplies to
\* decode: whichever seed the caller chooses, the features are the window
\* means of the trace plus the draws of that seed's stream
C14_CallerSeed ==
    dec.returned /\ noise_level > 0 =>
        \A seed \in CallerSeeds : \A i \in InRange :
            dec.result.features[i][1] * (DecE(i) - DecS(i))
                = dec.result.features[i][2] * SumOver(NoisyWith(seed), DecS(i) .. DecE(i) - 1)

\* what the code does instead: the noise is always the stream of seed 42,
\* whatever the caller and the field generator use
C14_FixedSeed ==
    dec.returned /\ noise_level > 0 =>
        \A i \in InRange :
            dec.result.features[i][1] * (DecE(i) - DecS(i))
                = dec.result.features[i][2] * SumOver(NoisyWith(42), DecS(i) .. DecE(i) - 1)

\* C20: when the bit windows fit the trace (len(bits) * bit_duration <=
\* len(trace)) and 0 <= trim < bit_duration, every bit has a valid feature
\* and nbits_valid = len(bits)
C20_AllValid ==
    dec.returned /\ Len0(bit_pattern) * bit_duration <= Len0(trace)
                 /\ 0 <= trim /\ trim < bit_duration =>
        /\ \A i \in DOMAIN bit_pattern :
              /\ IsFinite(dec.result.features[i])
              /\ dec.result.y_pred[i] \in {0, 1}
        /\ dec.result.nbits_valid = Len0(bit_pattern)
        /\ Cardinality({i \in DOMAIN dec.result.features :
                           IsFinite(dec.result.features[i])}) = Len0(bit_pattern)

\* two bits of two samples each on a trace of four samples, decoded with
\* trim 1: both features are valid
C20_Witness ==
    /\ dec.returned
    /\ Len0(bit_pattern) = 2 /\ bit_duration = 2 /\ trim = 1
    /\ Len0(trace) = Len0(bit_pattern) * bit_duration
    /\ dec.result.nbits_valid = 2

---------------------------------------------------------------------------
(* The harness as a state machine: one run of ber_leaderboard.  The field   *)
(* and the functional's output are not computed: the trace at the probe    *)
(* column is any of ProbeTraces                                            *)

Bits(seq) == [i \in 0 .. Len(seq) - 1 |-> seq[i + 1]]
SourcePattern == Bits(<<1, 0, 1, 1, 0, 1, 0, 0, 1, 1>>)

Scenario(label, mode, bits) == [label |-> label, mode |-> mode, bits |-> bits]

\* the scenario list of the source, and lists with an unknown mode, a mode
\* without bit metadata, and a label used twice
ScenarioLists ==
    { << Scenario("AM", "modulated", SourcePattern),
         Scenario("PM", "phase_modulated", SourcePattern),
         Scenario("FSK", "freq_modulated", SourcePattern) >>,
      << Scenario("PM", "phase_modulated", Bits(<<1, 0>>)),
         Scenario("XX", "chirp_modulated", Bits(<<1, 0>>)),
         Scenario("SM", "smooth", Bits(<<1, 0>>)),
         Scenario("AM", "modulated", SourcePattern) >>,
      << Scenario("XX", "chirp_modulated", Bits(<<1, 0>>)),
         Scenario("SM", "turbulent", Bits(<<1, 0>>)) >>,
      << Scenario("AM", "modulated", Bits(<<1, 0>>)),
         Scenario("AM", "two_node", Bits(<<1, 1>>)) >> }

\* the two levels of a probe trace, in hundredths
LevelPairs == {<<0, 100>>, <<100, 0>>, <<100, 100>>}
\* traces of Nt samples that hold one level in the first half and one in the second
ProbeTraces(Nt) ==
    {[j \in 0 .. Nt - 1 |-> IF j < Nt \div 2 THEN lv[1] ELSE lv[2]] : lv \in LevelPairs}

InitLb ==
    /\ scenarios \in ScenarioLists
    /\ lb_Nt = LbNt
    /\ lb_pc = "gen" /\ si = 1 /\ fi = 0
    /\ meta = <<>> /\ results = <<>> /\ results_sorted = <<>> /\ log = <<>>
    /\ FnIdle /\ DecIdle /\ GenIdle /\ SimIdle

Generated == generate_em_field(scenarios[si].mode, lb_Nt, scenarios[si].bits)

\* generate_em_field raised: the scenario is skipped when the error is caught
LbSkipUnavailable ==
    /\ lb_pc = "gen" /\ si <= Len(scenarios)
    /\ Generated.raised
    /\ IF Catches(Generated.error)
       THEN /\ log' = Append(log, [label |-> scenarios[si].label, reason |-> "not available"])
            /\ si' = si + 1
            /\ UNCHANGED lb_pc
       ELSE /\ lb_pc' = "failed"
            /\ UNCHANGED <<log, si>>
    /\ UNCHANGED <<scenarios, lb_Nt, fi, meta, results, results_sorted, fnVars, decVars, genVars, simVars>>

\* the metadata lacks bit_pattern or bit_duration: the scenario is skipped
LbSkipNoMetadata ==
    /\ lb_pc = "gen" /\ si <= Len(scenarios)
    /\ ~Generated.raised
    /\ ~HasBitMetadata(Generated.meta)
    /\ log' = Append(log, [label |-> scenarios[si].label, reason |-> "missing bit metadata"])
    /\ si' = si + 1
    /\ UNCHANGED <<scenarios, lb_Nt, lb_pc, fi, meta, results, results_sorted, fnVars, decVars, genVars, simVars>>

\* bit_pattern = meta["bit_pattern"]; bit_duration = int(meta["bit_duration"]):
\* a missing key is a KeyError, which nothing catches
LbBeginScenario ==
    /\ lb_pc = "gen" /\ si <= Len(scenarios)
    /\ ~Generated.raised
    /\ HasBitMetadata(Generated.meta)
    /\ IF "bit_pattern" \in DOMAIN Generated.meta /\ "bit_duration" \in DOMAIN Generated.meta
       THEN /\ meta' = Generated.meta
            /\ fi' = 1
            /\ lb_pc' = "eval"
       ELSE /\ lb_pc' = "failed"
            /\ UNCHANGED <<meta, fi>>
    /\ UNCHANGED <<scenarios, lb_Nt, si, results, results_sorted, log, fnVars, decVars, genVars, simVars>>

\* C = f(A); trace = C[:, idx_probe]; decode; margin; results.append(...)
LbEvaluate ==
    /\ lb_pc = "eval"
    /\ \E tr \in ProbeTraces(lb_Nt) :
          LET d == decode_bits_from_trace(tr, meta.bit_pattern, meta.bit_duration,
                                          HarnessTrim(meta.bit_duration), 0)
          IN results' = Append(results,
                 Entry(scenarios[si].label, scenarios[si].mode, Functionals[fi], d))
    /\ IF fi < Len(Functionals)
       THEN fi' = fi + 1 /\ UNCHANGED <<si, lb_pc>>
       ELSE fi' = 0 /\ si' = si + 1 /\ lb_pc' = "gen"
    /\ UNCHANGED <<scenarios, lb_Nt, meta, results_sorted, log, fnVars, decVars, genVars, simVars>>

\* results_sorted = sorted(results, key=...); return results_sorted
LbSort ==
    /\ lb_pc = "gen" /\ si > Len(scenarios)
    /\ results_sorted' = SortedByKey(results)
    /\ lb_pc' = "done"
    /\ UNCHANGED <<scenarios, lb_Nt, si, fi, meta, results, log, fnVars, decVars, genVars, simVars>>

NextLb ==
    \/ LbSkipUnavailable
    \/ LbSkipNoMetadata
    \/ LbBeginScenario
    \/ LbEvaluate
    \/ LbSort

SpecLb == InitLb /\ [][NextLb]_vars

\* the scheme names generate_em_field supports
SupportedSchemes ==
    {"smooth", "turbulent", "modulated", "phase_modulated", "freq_modulated", "two_node"}
\* the scenarios the harness has finished with
Processed == {k \in 1 .. Len(scenarios) : k < si}
\* the scenarios that are not skipped: a supported scheme that embeds a message
Live == {k \in 1 .. Len(scenarios) :
            scenarios[k].mode \in SupportedSchemes \ {"smooth", "turbulent"}}
EntriesOf(list, label, mode, fname) ==
    {i \in 1 .. Len(list) :
        list[i].modulation = label /\ list[i].mode = mode /\ list[i].functional = fname}
SameGroup(a, b) == a.modulation = b.modulation /\ RatEq(a.ber, b.ber)

\* the ordering the sort key gives: modulations contiguous, BER
\* non-decreasing, defined margins non-increasing within equal BER
OrderedByBerAndMargin(L) ==
    /\ \A i, j, k \in 1 .. Len(L) :
          i < j /\ j < k /\ L[i].modulation = L[k].modulation
             => L[j].modulation = L[i].modulation
    /\ \A i, j \in 1 .. Len(L) :
          i < j /\ L[i].modulation = L[j].modulation => RatLe(L[i].ber, L[j].ber)
    /\ \A i, j \in 1 .. Len(L) :
          i < j /\ SameGroup(L[i], L[j]) /\ IsFinite(L[i].margin) /\ IsFinite(L[j].margin)
             => RatLe(L[j].margin, L[i].margin)

C8_NanSortsAsZero ==
    lb_pc = "done" =>
        /\ OrderedByBerAndMargin(results_sorted)
        /\ \A i, j \in 1 .. Len(results_sorted) :
              i < j /\ SameGroup(results_sorted[i], results_sorted[j]) =>
                 /\ ~IsFinite(results_sorted[i].margin) /\ IsFinite(results_sorted[j].margin)
                       => RatLe(results_sorted[j].margin, <<0, 1>>)
                 /\ IsFinite(results_sorted[i].margin) /\ ~IsFinite(results_sorted[j].margin)
                       => RatLe(<<0, 1>>, results_sorted[i].margin)

\* C9: a scenario with an unsupported scheme makes generate_em_field raise;
\* the harness does not fail, logs the skip, adds no entry for it and still
\* returns the entries of every other scenario
C9_UnknownSchemeSkipped ==
    /\ lb_pc # "failed"
    /\ \A k \in Processed :
          scenarios[k].mode \notin SupportedSchemes =>
             /\ \E m \in 1 .. Len(log) :
                   log[m] = [label |-> scenarios[k].label, reason |-> "not available"]
             /\ \A i \in 1 .. Len(results) : results[i].mode # scenarios[k].mode
    /\ lb_pc = "done" =>
          \A k \in Live : \A f \in 1 .. Len(Functionals) :
             EntriesOf(results_sorted, scenarios[k].label, scenarios[k].mode,
                       Functionals[f]) # {}

\* a finished run in which an unsupported scenario came before a live one
C9_Witness ==
    /\ lb_pc = "done"
    /\ \E k, m \in 1 .. Len(scenarios) :
          /\ k < m
          /\ scenarios[k].mode \notin SupportedSchemes
          /\ m \in Live
          /\ EntriesOf(results_sorted, scenarios[m].label, scenarios[m].mode, "hybrid") # {}

\* C10: a scenario whose metadata lacks the bit fields adds no entry and is
\* no failure; every other scenario adds exactly one entry per functional
C10_MissingMetadataSkipped ==
    /\ lb_pc # "failed"
    /\ \A k \in Processed :
          scenarios[k].mode \in {"smooth", "turbulent"} =>
             \A i \in 1 .. Len(results) : results[i].mode # scenarios[k].mode
    /\ lb_pc = "done" =>
          /\ Len(results_sorted) = Cardinality(Live) * Len(Functionals)
          /\ \A k \in Live : \A f \in 1 .. Len(Functionals) :
                Cardinality(EntriesOf(results_sorted, scenarios[k].label,
                                      scenarios[k].mode, Functionals[f]))
                   = Cardinality({m \in Live :
                        /\ scenarios[m].label = scenarios[k].label
                        /\ scenarios[m].mode = scenarios[k].mode})

\* a finished run with a metadata-less scenario before a live one
C10_Witness ==
    /\ lb_pc = "done"
    /\ \E k, m \in 1 .. Len(scenarios) :
          /\ k < m
          /\ scenarios[k].mode = "smooth"
          /\ m \in Live
    /\ Len(results_sorted) = 2 * Len(Functionals)

\* C26: the trim of the harness is smaller than bit_duration for all the
\* metadata the generator returns, every bit whose interval starts inside
\* the trace keeps a sample, and no recorded entry has zero valid bits
C26_TrimLeavesSamples ==
    /\ lb_pc = "eval" =>
          LET bd == meta.bit_duration
              tm == HarnessTrim(bd)
          IN /\ tm < bd
             /\ \A i \in DOMAIN meta.bit_pattern :
                   i * bd < lb_Nt => BitStart(i, bd, tm) < BitEnd(i, bd, lb_Nt)
    /\ \A k \in DOMAIN results : results[k].nbits > 0

\* what the code does: the trim is smaller than bit_duration except for
\* bit_duration = 1 (fewer than two samples per bit), where it is 1 and
\* every entry of the scenario is recorded with no valid bit and BER 0
C26_TrimUnlessOneSample ==
    /\ lb_pc = "eval" =>
          LET bd == meta.bit_duration
              tm == HarnessTrim(bd)
          IN /\ bd >= 2 => tm < bd
             /\ bd = 1 <=> lb_Nt < 2 * Len0(meta.bit_pattern)
             /\ bd = 1 => tm = 1
    /\ \A k \in DOMAIN results :
          LET bd == bit_dur(lb_Nt, CHOOSE b \in {scenarios[j].bits : j \in DOMAIN scenarios} :
                                      \E j \in DOMAIN scenarios :
                                         /\ scenarios[j].bits = b
                                         /\ scenarios[j].label = results[k].modulation
                                         /\ scenarios[j].mode = results[k].mode)
          IN bd = 1 => results[k].nbits = 0 /\ results[k].ber = <<0, 1>>

---------------------------------------------------------------------------
(* The field generator as a state machine: one call of generate_em_field *)

GenPatterns == UNION {[0 .. n - 1 -> {0, 1}] : n \in 0 .. GenBits}
Speeds == {Infinite, Speed(1), Speed(2), Speed(4), Speed(0), Speed(-1), Speed(-2)}
AllModes == PlainModes \cup MessageModes \cup {"chirp_modulated"}

GenArgs(mode, Nt, bits, couple, v, dist, dt) ==
    [mode |-> mode, Nt |-> Nt, bits |-> bits, enable_coupling |-> couple,
     coupling_speed |-> v, dist |-> dist, dt |-> dt]

\* the coupling arguments are read by two_node only
GenInputs ==
    {GenArgs(mode, Nt, bits, TRUE, Infinite, 0, 1) :
        mode \in AllModes \ {"two_node"}, Nt \in 1 .. GenNt, bits \in GenPatterns}
    \cup {GenArgs("two_node", Nt, bits, FALSE, Infinite, 0, 1) :
        Nt \in 1 .. GenNt, bits \in GenPatterns}
    \cup UNION {{GenArgs("two_node", Nt, bits, TRUE, v, dist, dt) :
                    Nt \in 1 .. GenNt, bits \in GenPatterns, v \in Speeds} :
                dist \in 0 .. MaxDist, dt \in {1, 2}}

InitGen ==
    /\ gen_in \in GenInputs
    /\ gen_out = NoResult
    /\ idx_probe = 0
    /\ FnIdle /\ DecIdle /\ LbIdle /\ SimIdle

Generate ==
    /\ gen_out = NoResult
    /\ gen_out' = [returned |-> TRUE, result |-> generate_call(gen_in)]
    /\ UNCHANGED <<gen_in, idx_probe, fnVars, decVars, lbVars, simVars>>

NextGen == Generate

SpecGen == InitGen /\ [][NextGen]_vars

\* the call was a two_node call with coupling enabled and it returned
CoupledReturn ==
    /\ gen_out.returned
    /\ gen_in.mode = "two_node" /\ gen_in.enable_coupling
    /\ ~gen_out.result.raised
\* the call returned the metadata of a message-bearing scheme
MessageReturn ==
    /\ gen_out.returned
    /\ gen_in.mode \in MessageModes
    /\ ~gen_out.result.raised
\* steps is a nearest integer to num / den (den # 0)
IsNearest(steps, num, den) == 2 * Abs(steps * den - num) <= Abs(den)

\* C11: with coupling enabled the delay in samples is the rounded value of
\* |x_B - x_A| / coupling_speed / dt and is non-negative for every finite
\* coupling speed, and it is 0 for an infinite one
C11_DelaySteps ==
    CoupledReturn =>
        LET v == gen_in.coupling_speed
            d == gen_out.result.delay_steps
        IN IF v.finite
           THEN /\ d >= 0
                /\ IsNearest(d, gen_in.dist, v.val * gen_in.dt)
           ELSE d = 0

\* the part of C11 the code satisfies: the delay is the rounded quotient for
\* every finite non-zero speed, non-negative for a positive speed, never
\* positive for a negative one, and 0 for an infinite one
C11_PositiveSpeed ==
    CoupledReturn =>
        LET v == gen_in.coupling_speed
            d == gen_out.result.delay_steps
        IN IF v.finite
           THEN /\ IsNearest(d, gen_in.dist, v.val * gen_in.dt)
                /\ v.val > 0 => d >= 0
                /\ v.val < 0 => d <= 0
           ELSE d = 0

\* C12: for a delay d >= 0 the delayed envelope is 0 before sample d and the
\* envelope shifted by d from sample d on, also when d >= Nt
C12_ZeroFilled ==
    CoupledReturn /\ gen_out.result.delay_steps >= 0 =>
        LET d == gen_out.result.delay_steps
            envelope == gen_out.result.meta.envelope
            env_delayed == gen_out.result.env_delayed
        IN /\ DOMAIN env_delayed = 0 .. gen_in.Nt - 1
           /\ \A i \in 0 .. gen_in.Nt - 1 :
                 IF i < d THEN env_delayed[i] = 0
                 ELSE env_delayed[i] = envelope[i - d]

\* a delay inside the grid with a non-zero envelope tail, which a bare
\* np.roll would bring to the head
C12_Witness ==
    /\ CoupledReturn
    /\ gen_out.result.delay_steps > 0
    /\ gen_out.result.delay_steps < gen_in.Nt
    /\ gen_out.result.meta.envelope[gen_in.Nt - 1] # 0
    /\ gen_out.result.env_delayed[0] = 0
    /\ gen_out.result.env_delayed[gen_in.Nt - 1] # 0

\* a delay of at least the whole grid: the delayed envelope is all zero
C12_WitnessLong ==
    /\ CoupledReturn
    /\ gen_out.result.delay_steps >= gen_in.Nt
    /\ \A i \in 0 .. gen_in.Nt - 1 : gen_out.result.meta.envelope[i] # 0

\* the grids on which the two_node scheme can compute a delay: at least two
\* time samples and a non-zero speed, or coupling disabled
CouplingDefined(in) ==
    \/ ~in.enable_coupling
    \/ in.Nt >= 2 /\ ~(in.coupling_speed.finite /\ in.coupling_speed.val = 0)

C17_WitnessTail ==
    /\ MessageReturn
    /\ gen_in.mode = "modulated"
    /\ Len0(gen_in.bits) * gen_out.result.meta.bit_duration < gen_in.Nt
    /\ gen_out.result.meta.envelope[gen_in.Nt - 1] = 0

\* the metadata of a returned call has bit_duration = max(1, Nt div len(bits))
\* and the input bit pattern
MetadataAsGiven ==
    /\ gen_out.result.meta.bit_duration \in Nat
    /\ gen_out.result.meta.bit_duration >= 1
    /\ gen_out.result.meta.bit_duration
          = (IF Len0(gen_in.bits) > gen_in.Nt THEN 1
             ELSE gen_in.Nt \div Len0(gen_in.bits))
    /\ gen_out.result.meta.bit_pattern = gen_in.bits

\* C18 as claimed: for AM, PM, FSK and two_node, every Nt >= 1 and every
\* non-empty bit pattern the generator returns metadata with
\* bit_duration = max(1, floor(Nt / len(bits))) >= 1 and the input pattern
C18_BitDuration ==
    gen_out.returned /\ gen_in.mode \in MessageModes
       /\ gen_in.Nt >= 1 /\ gen_in.bits # <<>>
       => ~gen_out.result.raised /\ MetadataAsGiven

\* C18 as amended: the same for AM, PM and FSK with every Nt >= 1, and for
\* two_node on the grids on which the delay can be computed
C18_BitDurationOnGrid ==
    gen_out.returned /\ gen_in.mode \in MessageModes
       /\ gen_in.Nt >= 1 /\ gen_in.bits # <<>>
       /\ (gen_in.mode = "two_node" => CouplingDefined(gen_in))
       => ~gen_out.result.raised /\ MetadataAsGiven

\* a coupled two_node call with more bits than samples: floor(Nt / len(bits))
\* is 0 and the bit duration is 1
C18_Witness ==
    /\ MessageReturn
    /\ gen_in.mode = "two_node" /\ gen_in.enable_coupling
    /\ gen_in.Nt >= 2
    /\ Len0(gen_in.bits) > gen_in.Nt
    /\ gen_out.result.meta.bit_duration = 1

---------------------------------------------------------------------------
(* The body of the harness loop on one field and one trace: a functional   *)
(* is evaluated on the field and a trace is decoded, in either order.      *)
(* B_field is the caller's copy of the field made before the run           *)

\* the zero field and the fields with one non-zero sample
FrameFields ==
    LET Zero == [t \in 0 .. FnNt - 1 |-> [x \in 0 .. FnNx - 1 |-> 0]]
    IN {Zero} \cup {Poke(Zero, t, x, 1) : t \in 0 .. FnNt - 1, x \in 0 .. FnNx - 1}

InitFrame ==
    /\ A_field \in FrameFields
    /\ B_field = A_field
    /\ em = DefaultParams
    /\ fn = "none" /\ C_out = <<>> /\ C_outB = <<>> /\ windows = <<>>
    /\ trace \in [0 .. 1 -> TraceValues]
    /\ bit_pattern \in [0 .. 1 -> {0, 1}]
    /\ bit_duration = 1
    /\ trim = 0
    /\ noise_level \in {0, 1}
    /\ dec = NoResult
    /\ LbIdle /\ SimIdle /\ GenIdle

NextFrame ==
    \/ NextFn
    \/ NextDec

SpecFrame == InitFrame /\ [][NextFrame]_vars

---------------------------------------------------------------------------
(* The round trip: an AM field is generated, the hybrid functional is       *)
(* computed and its trace at the probe column is decoded.  The carrier      *)
(* sin(k*x - omega*t) is sampled where it is 0, 1, 0, -1 (k*dx = pi/2 and    *)
(* omega*dt a multiple of pi/2), field samples are in units of A0/4, and    *)
(* the trace is kept as the exponents of its samples: sample j is           *)
(* exp(-E[j] * u) for a scale u > 0 that depends on A0, dx and dt           *)

\* sin(k*x[j] - omega*t[n]) for k*dx = pi/2 and omega*dt = w*pi/2
Carrier(j, n, w) == UnitIm(j - w * n)

\* A = A0 * (1.0 + 0.25 * envelope[:, None]) * np.sin(k * X - omega * T)
am_field(in) ==
    LET envelope == envelope_of(in.Nt, in.bits)
    IN [n \in 0 .. in.Nt - 1 |-> [j \in 0 .. in.Nx - 1 |->
          (4 + envelope[n]) * Carrier(j, n, in.omega)]]

\* trace = C[:, idx_probe], as twice the exponent of every sample
ExpTrace(C, idx) == [n \in DOMAIN C |-> (2 * C[n][idx].num) \div C[n][idx].den]

RECURSIVE ProdOver(_, _)
ProdOver(f, S) ==
    IF S = {} THEN 1
    ELSE LET i == CHOOSE j \in S : TRUE IN f[i] * ProdOver(f, S \ {i})

\* decode_bits_from_trace on a trace of exponentials, noise_level = 0, for a
\* pattern with both bit values among its valid bits.  A feature is the
\* mean of exp(-E[j]*u) over the bit's window and the threshold the midpoint
\* of the two class means, so feature - threshold is a sum of c(v) *
\* exp(-v*u) over the exponents v of the trace.  With the exponents in
\* increasing order, the sum is positive for every u > 0 when all partial
\* sums of the c(v) are >= 0 and one is > 0, and it is <= 0 for every u > 0
\* when all partial sums are <= 0 (summation by parts); otherwise its sign
\* depends on u.  above[i] is "yes", "no" or "either" accordingly
decode_exp_trace(E, bits, bd, tm) ==
    LET n == Len0(E)
        S(i) == BitStart(i, bd, tm)
        T(i) == BitEnd(i, bd, n)
        valid == {i \in DOMAIN bits : S(i) < T(i)}
        V0 == {i \in valid : bits[i] = 0}
        V1 == {i \in valid : bits[i] = 1}
        len == [i \in valid |-> T(i) - S(i)]
        P == ProdOver(len, valid)
        Values == {E[j] : j \in DOMAIN E}
        \* P times the weight of exp(-v*u) in feature i
        W(i, v) == Cardinality({j \in S(i) .. T(i) - 1 : E[j] = v}) * (P \div len[i])
        \* 2 * P * |V0| * |V1| times its weight in feature i - threshold
        D(i, v) ==
            2 * Cardinality(V0) * Cardinality(V1) * W(i, v)
              - Cardinality(V1) * SumOver([k \in valid |-> W(k, v)], V0)
              - Cardinality(V0) * SumOver([k \in valid |-> W(k, v)], V1)
        Partial(i, v) == SumOver([w \in Values |-> D(i, w)], {w \in Values : w <= v})
        above == [i \in valid |->
                    IF /\ \A v \in Values : Partial(i, v) >= 0
                       /\ \E v \in Values : Partial(i, v) > 0 THEN "yes"
                    ELSE IF \A v \in Values : Partial(i, v) <= 0 THEN "no"
                    ELSE "either"]
    IN [valid |-> valid, above |-> above]

\* the predictions decode may return: (feats_v > threshold).astype(int) for
\* the valid bits, -1 for the others
Predictions(bits, d) ==
    {y \in [DOMAIN bits -> {-1, 0, 1}] :
        \A i \in DOMAIN bits :
           IF i \notin d.valid THEN y[i] = -1
           ELSE /\ y[i] \in {0, 1}
                /\ d.above[i] = "yes" => y[i] = 1
                /\ d.above[i] = "no" => y[i] = 0}

RtPatterns ==
    {b \in UNION {[0 .. n - 1 -> {0, 1}] : n \in 2 .. RtBits} :
        (\E i \in DOMAIN b : b[i] = 0) /\ (\E i \in DOMAIN b : b[i] = 1)}

RtArgs(Nt, bits, w) ==
    [mode |-> "modulated", Nt |-> Nt, bits |-> bits, enable_coupling |-> FALSE,
     coupling_speed |-> Infinite, dist |-> 0, dt |-> 1, Nx |-> RtNx, omega |-> w]

InitRound ==
    /\ gen_in \in {RtArgs(Nt, bits, w) : Nt \in 2 .. RtNt, bits \in RtPatterns, w \in {0, 1}}
    /\ gen_out = NoResult
    /\ idx_probe \in 0 .. RtNx - 1
    /\ A_field = <<>> /\ B_field = <<>> /\ em = DefaultParams /\ fn = "none"
    /\ C_out = <<>> /\ C_outB = <<>> /\ windows = <<>>
    /\ trace = <<>> /\ bit_pattern = <<>> /\ bit_duration = 1 /\ trim = 0
    /\ noise_level = 0 /\ dec = NoResult
    /\ LbIdle /\ SimIdle

\* A, meta = generate_em_field("modulated", x, t, params)
RtGenerate ==
    /\ gen_out = NoResult
    /\ gen_out' = [returned |-> TRUE, result |-> generate_call(gen_in)]
    /\ A_field' = am_field(gen_in)
    /\ B_field' = am_field(gen_in)
    /\ UNCHANGED <<gen_in, idx_probe, em, fn, C_out, C_outB, windows, decVars, lbVars, simVars>>

\* C = em.hybrid(A, dx, dt)
RtHybrid == gen_out # NoResult /\ Hybrid

\* trace = C[:, idx_probe]; decode_bits_from_trace(trace, bit_pattern, bit_duration)
RtDecode ==
    /\ fn = "hybrid" /\ dec = NoResult
    /\ trace' = ExpTrace(C_out, idx_probe)
    /\ bit_pattern' = gen_out.result.meta.bit_pattern
    /\ bit_duration' = gen_out.result.meta.bit_duration
    /\ LET d == decode_exp_trace(trace', bit_pattern', bit_duration', trim)
       IN \E y \in Predictions(bit_pattern', d) :
             LET errors == Cardinality({i \in d.valid : y[i] # bit_pattern'[i]})
             IN dec' = [returned |-> TRUE,
                        result |-> [y_true |-> bit_pattern', y_pred |-> y,
                                    errors |-> errors,
                                    nbits_valid |-> Cardinality(d.valid),
                                    ber |-> Ber(errors, Cardinality(d.valid),
                                                Len0(bit_pattern')),
                                    noise_level |-> noise_level]]
    /\ UNCHANGED <<trim, noise_level, fnVars, lbVars, genVars, simVars>>

NextRound ==
    \/ RtGenerate
    \/ RtHybrid
    \/ RtDecode

SpecRound == InitRound /\ [][NextRound]_vars

\* C19: the round trip (AM field, no noise, no coupling, hybrid functional,
\* decode with noise_level = 0) predicts every bit of the pattern: zero
\* errors, BER = 0
C19_RoundTrip ==
    dec.returned =>
        /\ dec.result.y_pred = gen_in.bits
        /\ dec.result.errors = 0
        /\ dec.result.ber = <<0, 1>>

\* what the code does: some patterns come back, and for others a bit is
\* mispredicted whatever the scale of the field is
C19_SomeRoundTrips ==
    dec.returned /\ gen_in.bits = Bits(<<1, 0>>) /\ gen_in.Nt = 2 /\ gen_in.omega = 0
                 /\ idx_probe = 0
        => dec.result.y_pred = gen_in.bits

---------------------------------------------------------------------------
(* Calls on a grid whose steps are not both positive: generate_em_field on  *)
(* the arrays x and t with steps dx and dt, and a functional with the       *)
(* arguments dx and dt.  C_out holds what functional_call gives.  A space   *)
(* step of 0 is given to the generator only: in a functional np.gradient    *)
(* then divides by zero and returns inf and nan samples                     *)

BadSteps == {s \in {-1, 0, 1} \X {-1, 0, 1} : s[1] <= 0 \/ s[2] <= 0}

CfgParams ==
    {[DefaultParams EXCEPT !.dt = 25 * s[1], !.dx = s[2]] : s \in {q \in BadSteps : q[2] # 0}}

\* x_A = x[len(x)//4] and x_B = x[3*len(x)//4] are span samples apart
CfgGenArgs(mode, Nt, couple, v, span, s) ==
    [mode |-> mode, Nt |-> Nt, bits |-> Bits(<<1, 0>>), enable_coupling |-> couple,
     coupling_speed |-> v, dist |-> Abs(s[2]) * span, dt |-> s[1], dx |-> s[2]]

CfgGenInputs ==
    {CfgGenArgs(mode, Nt, TRUE, Infinite, 1, s) :
        mode \in AllModes \ {"two_node"}, Nt \in 2 .. GenNt, s \in BadSteps}
    \cup {CfgGenArgs("two_node", Nt, FALSE, Infinite, 1, s) :
        Nt \in 2 .. GenNt, s \in BadSteps}
    \cup {CfgGenArgs("two_node", Nt, TRUE, v, 1, s) :
        Nt \in 2 .. GenNt, v \in {Infinite, Speed(1)}, s \in BadSteps}

InitConfig ==
    /\ A_field \in FrameFields
    /\ B_field = A_field
    /\ em \in CfgParams
    /\ fn = "none" /\ C_out = <<>> /\ C_outB = <<>> /\ windows = <<>>
    /\ gen_in \in CfgGenInputs
    /\ gen_out = NoResult
    /\ idx_probe = 0
    /\ DecIdle /\ LbIdle /\ SimIdle

CallOnGrid(name) ==
    /\ fn = "none"
    /\ fn' = name
    /\ C_out' = functional_call(name, A_field, em)
    /\ A_field' = FieldAfter(name, A_field)
    /\ UNCHANGED <<B_field, em, C_outB, windows, decVars, lbVars, genVars, simVars>>

CfgGradientBased == CallOnGrid("grad")
CfgEnergyLike == CallOnGrid("energy")
CfgPhaseWilsonLine == CallOnGrid("phase")
CfgHybrid == CallOnGrid("hybrid")
CfgEntropyCoherence == CallOnGrid("entropy")

NextConfig ==
    \/ Generate
    \/ CfgGradientBased
    \/ CfgEnergyLike
    \/ CfgPhaseWilsonLine
    \/ CfgHybrid
    \/ CfgEntropyCoherence

SpecConfig == InitConfig /\ [][NextConfig]_vars

\* C22: a call of the field generator or of a functional on a grid with
\* dt <= 0 or dx <= 0 ends in an error and returns neither a field nor a
\* coherence array
C22_BadGridFails ==
    /\ gen_out # NoResult => gen_out.result.raised
    /\ fn # "none" => C_out.raised

\* what the code does: nothing checks the steps.  The generator raises only
\* for an unknown scheme and, in two_node with coupling, for dt = 0; a
\* functional raises only for dt = 0 and otherwise returns an array of the
\* shape of its input with every entry in [0, 1]
C22_Unchecked ==
    /\ gen_out # NoResult =>
          (gen_out.result.raised <=>
              \/ gen_in.mode \notin PlainModes \cup MessageModes
              \/ gen_in.mode = "two_node" /\ gen_in.enable_coupling /\ gen_in.dt = 0)
    /\ fn # "none" =>
          /\ C_out.raised <=> em.dt = 0
          /\ ~C_out.raised =>
                /\ DOMAIN C_out.C = DOMAIN A_field
                /\ \A t \in DOMAIN A_field : \A x \in DOMAIN A_field[t] :
                      InUnit(C_out.C[t][x])

---------------------------------------------------------------------------
(* Topology-selective simulation: TopologySelectiveSimulation of             *)
(* src/Simulations/coupled_system_simulation.py (PhysicalSimulation of       *)
(* physical_coupling_sim.py has the same add_node and the same loop in run). *)
(* Units: dt = 1, m = 1, gamma = 1, noise = 1 and 4*pi*g = 1, so that the    *)
(* source term 2*g*theta*EB is C*EB and every channel quantity is an         *)
(* integer; E.B is sampled where sin is 0, 1, 0, -1; a node measurement is   *)
(* kept in tenths (local_noise_level = 0.1).  An object is named by the      *)
(* position at which it was created in objects                               *)

MaxNodes == 3      \* most nodes added to one simulation
SimNt == 2         \* largest Params.Nt

Cherns == {1, 2}
Seeds == 0 .. 2
\* np.random.randn(): draw number k (from 0) of the global generator, which
\* nothing seeds: one of three streams over -1, 0, 1
randn(seed, k) == ((seed * (k + 1)) % 3) - 1

\* CoherenceChannel.__init__; theta in units of 2*pi; calls is the list of
\* the method calls the object has received
NewChannel(chern) ==
    [C |-> chern, theta |-> chern, Phi |-> 0, dPhi |-> 0, history |-> <<>>,
     calls |-> <<>>]

\* CoherenceChannel.drive(EB) with the noise draw z
drive(ch, EB, z) ==
    LET source == ch.theta * EB
        d2Phi == -ch.Phi - ch.dPhi + source + z
        dPhi2 == ch.dPhi + d2Phi
        Phi2 == ch.Phi + dPhi2
    IN [ch EXCEPT !.dPhi = dPhi2, !.Phi = Phi2, !.history = Append(@, Phi2),
                  !.calls = Append(@, [op |-> "drive", EB |-> EB, z |-> z])]

\* CoherenceChannel.idle() with the noise draw z
idle(ch, z) ==
    LET d2Phi == -ch.Phi - ch.dPhi + z
        dPhi2 == ch.dPhi + d2Phi
        Phi2 == ch.Phi + dPhi2
    IN [ch EXCEPT !.dPhi = dPhi2, !.Phi = Phi2, !.history = Append(@, Phi2),
                  !.calls = Append(@, [op |-> "idle", z |-> z])]

\* Node.__init__
NewNode(name, chern, channel) ==
    [name |-> name, C |-> chern, channel |-> channel, history |-> <<>>]

\* Node.measure() with the noise draw z, in tenths
measure(node, objs, z) ==
    [node EXCEPT !.history = Append(@, 10 * objs[node.channel].Phi + z)]

\* dict operations on the entries [C, obj] kept in insertion order
Keys(d) == {d[i].C : i \in DOMAIN d}
DictGet(d, key) == d[CHOOSE i \in DOMAIN d : d[i].C = key].obj
DictSet(d, key, obj) ==
    IF key \in Keys(d)
    THEN [i \in DOMAIN d |-> IF d[i].C = key THEN [C |-> key, obj |-> obj] ELSE d[i]]
    ELSE Append(d, [C |-> key, obj |-> obj])

HasChannelNever(chern, d) == FALSE
\* chern in self.channels
HasChannel(chern, d) == chern \in Keys(d)

DrivesAll(C, senderC) == TRUE
\* if C == sender.C: channel.drive(EB), else: channel.idle()
Drives(C, senderC) == C = senderC

\* EB = amp * sin(2*pi*omega*t) at t = n*dt, with omega*dt = 1/4
EBAt(n, amp) == amp * UnitIm(n)

InitSim ==
    /\ sim_p \in [Nt : 0 .. SimNt, amp : {1, 2}]
    /\ channels = <<>> /\ objects = <<>> /\ nodes = <<>>
    /\ time = <<>> /\ EB_signal = <<>> /\ sender_idx = 0
    /\ sim_pc = "setup" /\ sim_n = 0 /\ sim_i = 0
    /\ rng \in [seed : Seeds, k : {0}]
    /\ FnIdle /\ DecIdle /\ LbIdle /\ GenIdle

\* add_node(name, chern), before run or after it returned; the node's name
\* is its position in self.nodes
AddNode ==
    /\ sim_pc \in {"setup", "done"}
    /\ Len(nodes) < MaxNodes
    /\ \E chern \in Cherns :
          LET create == ~HasChannel(chern, channels)
              objs2 == IF create THEN Append(objects, NewChannel(chern)) ELSE objects
              chans2 == IF create THEN DictSet(channels, chern, Len(objs2)) ELSE channels
          IN /\ objects' = objs2
             /\ channels' = chans2
             /\ nodes' = Append(nodes, NewNode(Len(nodes) + 1, chern, DictGet(chans2, chern)))
    /\ UNCHANGED <<sim_p, time, EB_signal, sender_idx, sim_pc, sim_n, sim_i, rng,
                   fnVars, decVars, lbVars, genVars>>

\* run(sender_idx) up to the loop: self.nodes[sender_idx] raises IndexError
\* when there is no such node
RunBegin ==
    /\ sim_pc = "setup"
    /\ \E idx \in 0 .. MaxNodes - 1 :
          /\ sender_idx' = idx
          /\ sim_pc' = IF idx < Len(nodes) THEN "step" ELSE "failed"
    /\ sim_n' = 0
    /\ UNCHANGED <<sim_p, channels, objects, nodes, time, EB_signal, sim_i, rng,
                   fnVars, decVars, lbVars, genVars>>

\* the head of one pass of "for n in range(Nt)": time and E.B sample
StepBegin ==
    /\ sim_pc = "step"
    /\ sim_n < sim_p.Nt
    /\ time' = Append(time, sim_n)
    /\ EB_signal' = Append(EB_signal, EBAt(sim_n, sim_p.amp))
    /\ sim_pc' = "channels"
    /\ sim_i' = 1
    /\ UNCHANGED <<sim_p, channels, objects, nodes, sender_idx, sim_n, rng,
                   fnVars, decVars, lbVars, genVars>>

\* one pass of "for C, channel in self.channels.items()"
ChannelUpdate ==
    /\ sim_pc = "channels"
    /\ LET entry == channels[sim_i]
           sender == nodes[sender_idx + 1]
           z == randn(rng.seed, rng.k)
           EB == EB_signal[Len(EB_signal)]
       IN objects' = [objects EXCEPT ![entry.obj] =
                         IF Drives(entry.C, sender.C) THEN drive(@, EB, z)
                         ELSE idle(@, z)]
    /\ rng' = [rng EXCEPT !.k = @ + 1]
    /\ IF sim_i < Len(channels)
       THEN sim_i' = sim_i + 1 /\ UNCHANGED sim_pc
       ELSE sim_i' = 1 /\ sim_pc' = "measure"
    /\ UNCHANGED <<sim_p, channels, nodes, time, EB_signal, sender_idx, sim_n,
                   fnVars, decVars, lbVars, genVars>>

\* one pass of "for node in self.nodes"; after the last node the step ends
Measure ==
    /\ sim_pc = "measure"
    /\ nodes' = [nodes EXCEPT ![sim_i] = measure(@, objects, randn(rng.seed, rng.k))]
    /\ rng' = [rng EXCEPT !.k = @ + 1]
    /\ IF sim_i < Len(nodes)
       THEN sim_i' = sim_i + 1 /\ UNCHANGED <<sim_pc, sim_n>>
       ELSE sim_i' = 0 /\ sim_pc' = "step" /\ sim_n' = sim_n + 1
    /\ UNCHANGED <<sim_p, channels, objects, time, EB_signal, sender_idx,
                   fnVars, decVars, lbVars, genVars>>

\* the loop is over: the histories become arrays and run returns
RunEnd ==
    /\ sim_pc = "step"
    /\ sim_n = sim_p.Nt
    /\ sim_pc' = "done"
    /\ UNCHANGED <<sim_p, channels, objects, nodes, time, EB_signal, sender_idx,
                   sim_n, sim_i, rng, fnVars, decVars, lbVars, genVars>>

NextSim ==
    \/ AddNode
    \/ RunBegin
    \/ StepBegin
    \/ ChannelUpdate
    \/ Measure
    \/ RunEnd

SpecSim == InitSim /\ [][NextSim]_vars

NodeCherns == {nodes[i].C : i \in DOMAIN nodes}

\* one channel per Chern number of a node, every node on the channel of its
\* own Chern number, the same object exactly for equal Chern numbers
ChannelsMatchNodes ==
    /\ Keys(channels) = NodeCherns
    /\ \A i, j \in DOMAIN channels : channels[i].C = channels[j].C => i = j
    /\ Len(objects) = Cardinality(NodeCherns)
    /\ \A i \in DOMAIN nodes :
          /\ nodes[i].channel = DictGet(channels, nodes[i].C)
          /\ objects[nodes[i].channel].C = nodes[i].C
    /\ \A i, j \in DOMAIN nodes :
          nodes[i].channel = nodes[j].channel <=> nodes[i].C = nodes[j].C

\* a step that adds a node leaves every entry of the dict and every
\* existing channel object as it was
ChannelsKept ==
    Len(nodes') = Len(nodes) + 1 =>
        /\ \A i \in DOMAIN channels : i \in DOMAIN channels' /\ channels'[i] = channels[i]
        /\ \A o \in DOMAIN objects : o \in DOMAIN objects' /\ objects'[o] = objects[o]

\* C23: after any sequence of add_node calls there is exactly one channel
\* per distinct Chern number among the nodes, every node's channel is the
\* one keyed by its own Chern number, two nodes share a channel object
\* exactly when their Chern numbers are equal, and add_node never replaces
\* or resets an existing channel
C23_OneChannelPerChern == [](ChannelsMatchNodes) /\ [][ChannelsKept]_vars

\* three nodes, the third added after run to the Chern number of the first:
\* it shares the first node's channel, which kept the state of the run, and
\* the second node is on another channel
C23_Witness ==
    /\ sim_pc = "done"
    /\ Len(nodes) = 3
    /\ nodes[1].history # <<>> /\ nodes[3].history = <<>>
    /\ nodes[3].channel = nodes[1].channel
    /\ nodes[2].channel # nodes[1].channel
    /\ Len(objects[nodes[3].channel].history) = sim_p.Nt
    /\ objects[nodes[3].channel].Phi # 0

InRun == sim_pc \in {"step", "channels", "measure"}

RECURSIVE FreeEvolution(_, _, _)
\* a fresh channel after k idle calls with the noise draws of calls
FreeEvolution(chern, calls, k) ==
    IF k = 0 THEN NewChannel(chern)
    ELSE idle(FreeEvolution(chern, calls, k - 1), calls[k].z)

\* during run: in step n the channels are updated one by one, each once,
\* then the nodes measure; the sender's channel receives drive(EB_signal[n])
\* and every other channel idle(), whose state is then the free evolution
\* under its own noise; a measurement is taken from the updated channel
StepOrder ==
    InRun =>
        LET senderC == nodes[sender_idx + 1].C
        IN /\ Len(time) = Len(EB_signal)
           /\ Len(time) = IF sim_pc = "step" THEN sim_n ELSE sim_n + 1
           /\ \A i \in DOMAIN channels :
                 LET ch == objects[channels[i].obj]
                     updated == \/ sim_pc = "measure"
                                \/ sim_pc = "channels" /\ i < sim_i
                 IN /\ Len(ch.history) = IF updated THEN sim_n + 1 ELSE sim_n
                    /\ Len(ch.calls) = Len(ch.history)
                    /\ \A k \in DOMAIN ch.calls :
                          IF ch.C = senderC
                          THEN ch.calls[k].op = "drive" /\ ch.calls[k].EB = EB_signal[k]
                          ELSE ch.calls[k].op = "idle"
                    /\ ch.C # senderC =>
                          LET free == FreeEvolution(ch.C, ch.calls, Len(ch.calls))
                          IN /\ ch.Phi = free.Phi /\ ch.dPhi = free.dPhi
                             /\ ch.history = free.history
           /\ \A j \in DOMAIN nodes :
                 LET measured == sim_pc = "measure" /\ j < sim_i
                     ch == objects[nodes[j].channel]
                 IN /\ Len(nodes[j].history) = IF measured THEN sim_n + 1 ELSE sim_n
                    /\ \A k \in DOMAIN nodes[j].history :
                          Abs(nodes[j].history[k] - 10 * ch.history[k]) <= 1

\* when run returns, every history has Nt entries
FullHistories ==
    sim_pc = "step" /\ sim_pc' = "done" =>
        /\ Len(time') = sim_p.Nt /\ Len(EB_signal') = sim_p.Nt
        /\ \A i \in DOMAIN channels' : Len(objects'[channels'[i].obj].history) = sim_p.Nt
        /\ \A j \in DOMAIN nodes' : Len(nodes'[j].history) = sim_p.Nt

\* C24: in every time step of run each channel is updated exactly once and
\* before any node measures, the sender's channel driven with the step's E.B
\* sample and every other channel idling, so that a channel of another Chern
\* number does not depend on E.B; after run every channel history and every
\* node history has Nt entries
C24_StepOrder == [](StepOrder) /\ [][FullHistories]_vars

\* a finished run of two steps with a matched and a mismatched node: the
\* sender's channel was driven with a non-zero sample, the other one idled
C24_Witness ==
    /\ sim_pc = "done"
    /\ sim_p.Nt = 2
    /\ Len(nodes) = 3 /\ Len(channels) = 2
    /\ \A j \in DOMAIN nodes : Len(nodes[j].history) = 2
    /\ LET own == objects[nodes[sender_idx + 1].channel]
           other == objects[CHOOSE o \in DOMAIN objects : o # nodes[sender_idx + 1].channel]
       IN /\ own.calls[2].op = "drive" /\ own.calls[2].EB # 0
          /\ other.calls[1].op = "idle" /\ other.calls[2].op = "idle"
          /\ Len(other.history) = 2

===========================================================================
